---- MODULE Spec2Model ----
(***************************************************************************)
(* Fleet monitor: read-only monitor reconcilers (Bundle, BundleDeployment, *)
(* Cluster, GitRepo, HelmApp), their object cache, the global statistics   *)
(* tracker and the two-layer (mode x filter) gate on detailed log lines.   *)
(*                                                                         *)
(* Sources: internal/cmd/monitor/reconciler/{monitor,cache,stats,          *)
(* bundle_monitor,bundledeployment_monitor,cluster_monitor,                *)
(* gitrepo_monitor,bundle_query}.go                                        *)
(***************************************************************************)
EXTENDS Integers, Sequences, FiniteSets, TLC

VARIABLES
    api,      \* API-server state of the watched type: key -> object or NotFound
    cache,    \* ObjectCache.cache of the reconciler: key -> object or NoEntry
    stats,    \* globalStatsTracker.stats: ResourceKey -> ResourceStats (lazy)
    cfg,      \* the registered reconciler: kind, DetailedLogs, EventFilters, ResourceFilter
    last,     \* the operation that produced this state, its inputs and its return value
    twin,     \* a second run fed the same inputs under another logging configuration
    seen,     \* per key, what the most recent successful fetch of a reconcile returned
    heap,     \* Go heap: address -> the object allocated there, or Unallocated
    held,     \* addresses of the objects a caller of the cache holds a pointer to
    now,      \* time.Now(), in seconds since the tracker was constructed
    lastSummaryTime,  \* StatsTracker.lastSummaryTime
    history,  \* the Record* calls made since the interval anchor was last set, and by what
    mu,       \* StatsTracker.mu: the worker holding the write lock and those holding read locks
    work,     \* per worker goroutine: the tracker call it is in and where in it
    subject,  \* the value a function is exercised on: a filter, a configuration, a cluster
    printer,  \* the summary printer goroutine: where it is, its context and its ticker
    applied   \* the most recent call on the subject: function, arguments and result

\* state of the specifications that exercise one component on its own
\* state of the specifications that exercise a function on its inputs
pure == <<subject, applied, printer>>

apart == <<heap, held, now, lastSummaryTime, history, mu, work, pure>>

vars == <<api, cache, stats, cfg, last, twin, seen, apart>>

(***************************************************************************)
(* Bounds                                                                  *)
(***************************************************************************)
\* no further event is recorded once the tracker holds this many
MaxEvents == 2

\* number of objects the heap has room for
MaxObjects == 3

\* seconds the clock runs
MaxTime == 2

\* worker goroutines calling the tracker concurrently
MaxWorkers == 2

(***************************************************************************)
(* Domains                                                                 *)
(***************************************************************************)
Kinds == {"Bundle", "BundleDeployment", "Cluster", "GitRepo", "HelmApp"}

\* stats.go:14-23
EventTypeGenerationChange == "generation-change"
EventTypeStatusChange == "status-change"
EventTypeAnnotationChange == "annotation-change"
EventTypeLabelChange == "label-change"
EventTypeResourceVersionChange == "resourceversion-change"
EventTypeDeletion == "deletion"
EventTypeNotFound == "not-found"
EventTypeCreate == "create"

EventTypes ==
    { EventTypeGenerationChange, EventTypeStatusChange, EventTypeAnnotationChange,
      EventTypeLabelChange, EventTypeResourceVersionChange, EventTypeDeletion,
      EventTypeNotFound, EventTypeCreate }

TriggerTypes == {"BundleDeployment", "Cluster"}

\* types.NamespacedName of the requests the work queue delivers
Keys == { [namespace |-> "fleet-default", name |-> "b1"],
          [namespace |-> "fleet-local", name |-> "b2"] }

NotFound == [notFound |-> TRUE]
NoEntry == [exists |-> FALSE]

(***************************************************************************)
(* Go values: a map or slice is nil or holds elements; a nil and an empty  *)
(* one are different values with the same elements.                        *)
(***************************************************************************)
NilValue == [isNil |-> TRUE, elems |-> {}]
EmptyValue == [isNil |-> FALSE, elems |-> {}]
SetValue(e) == [isNil |-> FALSE, elems |-> e]

\* map[string]string values used for metadata.annotations / metadata.labels
MapValues == { NilValue, EmptyValue, SetValue({<<"k", "v">>}) }

\* the status struct, reduced to its condition list
StatusValues == { [conditions |-> NilValue], [conditions |-> EmptyValue],
                  [conditions |-> SetValue({"Ready"})] }

SpecValues == {"spec-a", "spec-b"}
Generations == {1, 2}
ResourceVersions == {"100", "101"}
FinalizerValues == { NilValue, SetValue({"fleet.cattle.io/finalizer"}) }

\* every object the fetch can return (client.Object of the watched type)
WatchedObjects ==
    [ generation : Generations,
      spec : SpecValues,
      status : StatusValues,
      resourceVersion : ResourceVersions,
      annotations : MapValues,
      labels : MapValues,
      finalizers : FinalizerValues,
      deleting : BOOLEAN ]

\* equality.Semantic.DeepEqual: deep comparison in which a nil and an empty
\* map or slice are equal
SemanticDeepEqualValue(a, b) == a.elems = b.elems

SemanticDeepEqualStatus(a, b) == SemanticDeepEqualValue(a.conditions, b.conditions)

\* cmp.Diff(a, b) != "": structural difference, nil and empty are distinct
CmpDiffers(a, b) == a /= b

(***************************************************************************)
(* Event-type filter (bundle_query.go:264-324)                             *)
(***************************************************************************)
EventTypeFilters ==
    [ GenerationChange : BOOLEAN, StatusChange : BOOLEAN, AnnotationChange : BOOLEAN,
      LabelChange : BOOLEAN, ResourceVersionChange : BOOLEAN, Deletion : BOOLEAN,
      NotFound : BOOLEAN, Create : BOOLEAN, TriggeredBy : BOOLEAN ]

IsEmpty(f) ==
    /\ ~f.GenerationChange
    /\ ~f.StatusChange
    /\ ~f.AnnotationChange
    /\ ~f.LabelChange
    /\ ~f.ResourceVersionChange
    /\ ~f.Deletion
    /\ ~f.NotFound
    /\ ~f.Create
    /\ ~f.TriggeredBy

\* variant: the flag of the event type decides, set or not
ShouldLogByFlag(f, eventType) ==
    CASE eventType = EventTypeGenerationChange -> f.GenerationChange
      [] eventType = EventTypeStatusChange -> f.StatusChange
      [] eventType = EventTypeAnnotationChange -> f.AnnotationChange
      [] eventType = EventTypeLabelChange -> f.LabelChange
      [] eventType = EventTypeResourceVersionChange -> f.ResourceVersionChange
      [] eventType = EventTypeDeletion -> f.Deletion
      [] eventType = EventTypeNotFound -> f.NotFound
      [] eventType = EventTypeCreate -> f.Create
      [] OTHER -> TRUE

ShouldLog(f, eventType) ==
    IF IsEmpty(f) THEN TRUE
    ELSE CASE eventType = EventTypeGenerationChange -> f.GenerationChange
           [] eventType = EventTypeStatusChange -> f.StatusChange
           [] eventType = EventTypeAnnotationChange -> f.AnnotationChange
           [] eventType = EventTypeLabelChange -> f.LabelChange
           [] eventType = EventTypeResourceVersionChange -> f.ResourceVersionChange
           [] eventType = EventTypeDeletion -> f.Deletion
           [] eventType = EventTypeNotFound -> f.NotFound
           [] eventType = EventTypeCreate -> f.Create
           [] OTHER -> TRUE

\* variant: trigger lines are never filtered
ShouldLogTriggerAlways(f) == TRUE

ShouldLogTrigger(f) == IF IsEmpty(f) THEN TRUE ELSE f.TriggeredBy

(***************************************************************************)
(* Resource filter (bundle_query.go:399-455).  A pattern is a regular      *)
(* expression source; the regexes of this model are anchored literals.     *)
(***************************************************************************)
NilFilter == [isNil |-> TRUE]

\* regexp.MatchString for the patterns the model configures
MatchString(pattern, s) ==
    CASE pattern = "^fleet-default$" -> s = "fleet-default"
      [] pattern = "^b1$" -> s = "b1"
      [] OTHER -> FALSE

\* variant: a pattern matches through its compiled regex only
MatchesCompiled(f, namespace, name) ==
    IF f = NilFilter THEN TRUE
    ELSE LET namespaceMatch == f.namespaceRegex /\ MatchString(f.NamespacePattern, namespace)
             nameMatch == f.nameRegex /\ MatchString(f.NamePattern, name)
         IN namespaceMatch /\ nameMatch

Matches(f, namespace, name) ==
    IF f = NilFilter THEN TRUE
    ELSE IF f.NamespacePattern = "" /\ f.NamePattern = "" THEN TRUE
    ELSE LET namespaceMatch == f.NamespacePattern = ""
                                  \/ (f.namespaceRegex /\ MatchString(f.NamespacePattern, namespace))
             nameMatch == f.NamePattern = ""
                             \/ (f.nameRegex /\ MatchString(f.NamePattern, name))
         IN namespaceMatch /\ nameMatch

(***************************************************************************)
(* Statistics tracker (stats.go)                                           *)
(***************************************************************************)
\* variant: one entry per resource type
ResourceKeyOfType(resourceType, namespace, name) ==
    [ResourceType |-> resourceType, Namespace |-> "", Name |-> ""]

ResourceKey(resourceType, namespace, name) ==
    [ResourceType |-> resourceType, Namespace |-> namespace, Name |-> name]

\* &ResourceStats{Counts: make(...), TriggeredBy: make(...)}: absent map keys read as 0
NewResourceStats ==
    [ Counts |-> [e \in EventTypes |-> 0],
      TriggeredBy |-> [t \in TriggerTypes |-> 0],
      Total |-> 0 ]

NewStatsTracker == <<>>

WithEntry(s, key) == IF key \in DOMAIN s THEN s ELSE s @@ (key :> NewResourceStats)

RecordEvent(s, resourceType, namespace, name, eventType) ==
    LET key == ResourceKey(resourceType, namespace, name)
    IN [WithEntry(s, key) EXCEPT ![key].Counts[eventType] = @ + 1,
                                 ![key].Total = @ + 1]

\* variant: a trigger is counted by type and not in the total
RecordTriggerUncounted(s, resourceType, namespace, name, triggerResourceType) ==
    LET key == ResourceKey(resourceType, namespace, name)
    IN [WithEntry(s, key) EXCEPT ![key].TriggeredBy[triggerResourceType] = @ + 1]

RecordTrigger(s, resourceType, namespace, name, triggerResourceType) ==
    LET key == ResourceKey(resourceType, namespace, name)
    IN [WithEntry(s, key) EXCEPT ![key].TriggeredBy[triggerResourceType] = @ + 1,
                                 ![key].Total = @ + 1]

\* stats.go:32-37
String(key) ==
    IF key.Namespace = "" THEN key.Name ELSE key.Namespace \o "/" \o key.Name

RECURSIVE SumTotals(_, _)
SumTotals(s, keys) ==
    IF keys = {} THEN 0
    ELSE LET k == CHOOSE x \in keys : TRUE
         IN s[k].Total + SumTotals(s, keys \ {k})

\* Summary.Totals.TotalEvents as GetSummary computes it
TotalEvents(s) == SumTotals(s, DOMAIN s)

\* the entry GetSummary leaves under grouped[resourceType][str]: the copy of the
\* stats of a key of that type and string (of the one the map iteration visits
\* last, when several keys have the same string)
SummaryEntries(s) == { <<k.ResourceType, String(k)>> : k \in DOMAIN s }

Visits(s) ==
    { w \in [SummaryEntries(s) -> DOMAIN s] :
         \A e \in SummaryEntries(s) : <<w[e].ResourceType, String(w[e])>> = e }

\* stats.go:146-188, for the visit order w
GetSummary(s, anchor, time, w) ==
    [ Timestamp |-> time,
      IntervalSeconds |-> time - anchor,
      Summary |-> [ e \in SummaryEntries(s) |->
                      [ Counts |-> s[w[e]].Counts,
                        TriggeredBy |-> s[w[e]].TriggeredBy,
                        Total |-> s[w[e]].Total ] ],
      Totals |-> [ TotalResourcesMonitored |-> Cardinality(DOMAIN s),
                   TotalEvents |-> TotalEvents(s) ] ]

\* variant: Reset clears the counters and leaves the interval anchor
ResetCountersOnly(anchor, time) == [stats |-> NewStatsTracker, lastSummaryTime |-> anchor]

\* stats.go:191-197
Reset(anchor, time) == [stats |-> NewStatsTracker, lastSummaryTime |-> time]

\* stats.go:200-204
UpdateLastSummaryTime(time) == time

(***************************************************************************)
(* Change detection and logging (monitor.go).  A sink is the pair of the   *)
(* statistics tracker and the lines the logger has emitted.                *)
(***************************************************************************)
Info(sink, line) == [sink EXCEPT !.logs = Append(@, line)]

recordEvent(sink, resourceType, namespace, name, eventType) ==
    [sink EXCEPT !.stats = RecordEvent(@, resourceType, namespace, name, eventType)]

\* variant: a generation change is reported when the spec differs
logSpecChangeBySpec(sink, detailedLogs, eventFilters, resourceType, namespace, name, oldSpec, newSpec, oldGen, newGen) ==
    IF ~CmpDiffers(oldSpec, newSpec) THEN sink
    ELSE LET s1 == recordEvent(sink, resourceType, namespace, name, EventTypeGenerationChange)
         IN IF detailedLogs /\ ShouldLog(eventFilters, EventTypeGenerationChange)
            THEN Info(s1, [event |-> "generation-change",
                           msg |-> "Spec changed - Generation update detected"])
            ELSE s1

logSpecChange(sink, detailedLogs, eventFilters, resourceType, namespace, name, oldSpec, newSpec, oldGen, newGen) ==
    IF oldGen = newGen THEN sink
    ELSE LET s1 == recordEvent(sink, resourceType, namespace, name, EventTypeGenerationChange)
         IN IF detailedLogs /\ ShouldLog(eventFilters, EventTypeGenerationChange)
            THEN IF CmpDiffers(oldSpec, newSpec)
                 THEN Info(s1, [event |-> "generation-change",
                                msg |-> "Spec changed - Generation update detected"])
                 ELSE Info(s1, [event |-> "generation-change",
                                msg |-> "Generation changed but spec appears identical"])
            ELSE s1

\* variant: statuses compared with reflect.DeepEqual, nil and empty differ
logStatusChangeReflect(sink, detailedLogs, eventFilters, resourceType, namespace, name, oldStatus, newStatus) ==
    IF oldStatus = newStatus THEN sink
    ELSE LET s1 == recordEvent(sink, resourceType, namespace, name, EventTypeStatusChange)
         IN IF detailedLogs /\ ShouldLog(eventFilters, EventTypeStatusChange)
            THEN Info(s1, [event |-> "status-change", msg |-> "Status changed"])
            ELSE s1

logStatusChange(sink, detailedLogs, eventFilters, resourceType, namespace, name, oldStatus, newStatus) ==
    IF SemanticDeepEqualStatus(oldStatus, newStatus) THEN sink
    ELSE LET s1 == recordEvent(sink, resourceType, namespace, name, EventTypeStatusChange)
         IN IF detailedLogs /\ ShouldLog(eventFilters, EventTypeStatusChange)
            THEN Info(s1, [event |-> "status-change", msg |-> "Status changed"])
            ELSE s1

\* variant: a finalizer change is reported although the resource version is the same
logResourceVersionChangeOnMetadata(sink, detailedLogs, eventFilters, resourceType, namespace, name, oldObj, newObj) ==
    IF /\ oldObj.resourceVersion = newObj.resourceVersion
       /\ SemanticDeepEqualValue(oldObj.finalizers, newObj.finalizers)
    THEN sink
    ELSE LET s1 == recordEvent(sink, resourceType, namespace, name,
                               EventTypeResourceVersionChange)
         IN IF detailedLogs /\ ShouldLog(eventFilters, EventTypeResourceVersionChange)
            THEN Info(s1, [event |-> "resourceversion-change",
                           msg |-> "metadata update: finalizers"])
            ELSE s1

logResourceVersionChangeWithMetadata(sink, detailedLogs, eventFilters, resourceType, namespace, name, oldObj, newObj) ==
    IF oldObj.resourceVersion = newObj.resourceVersion THEN sink
    ELSE LET s1 == recordEvent(sink, resourceType, namespace, name,
                               EventTypeResourceVersionChange)
             reason == IF ~SemanticDeepEqualValue(oldObj.finalizers, newObj.finalizers)
                       THEN "metadata update: finalizers"
                       ELSE "cache sync or unknown metadata update"
         IN IF detailedLogs /\ ShouldLog(eventFilters, EventTypeResourceVersionChange)
            THEN Info(s1, [event |-> "resourceversion-change", msg |-> reason])
            ELSE s1

logAnnotationChange(sink, detailedLogs, eventFilters, resourceType, namespace, name, oldAnnotations, newAnnotations) ==
    IF SemanticDeepEqualValue(oldAnnotations, newAnnotations) THEN sink
    ELSE LET s1 == recordEvent(sink, resourceType, namespace, name, EventTypeAnnotationChange)
         IN IF detailedLogs /\ ShouldLog(eventFilters, EventTypeAnnotationChange)
            THEN Info(s1, [event |-> "annotation-change", msg |-> "Annotations changed"])
            ELSE s1

logLabelChange(sink, detailedLogs, eventFilters, resourceType, namespace, name, oldLabels, newLabels) ==
    IF SemanticDeepEqualValue(oldLabels, newLabels) THEN sink
    ELSE LET s1 == recordEvent(sink, resourceType, namespace, name, EventTypeLabelChange)
         IN IF detailedLogs /\ ShouldLog(eventFilters, EventTypeLabelChange)
            THEN Info(s1, [event |-> "label-change", msg |-> "Labels changed"])
            ELSE s1

logRelatedResourceTrigger(sink, detailedLogs, eventFilters, resourceType, namespace, name, triggerType) ==
    LET s1 == [sink EXCEPT !.stats = RecordTrigger(@, resourceType, namespace, name,
                                                   triggerType)]
    IN IF detailedLogs /\ ShouldLogTrigger(eventFilters)
       THEN Info(s1, [event |-> "related-resource-trigger",
                      msg |-> "Triggered by related resource change"])
       ELSE s1

logDeletion(sink, detailedLogs, eventFilters, resourceType, namespace, name) ==
    LET s1 == recordEvent(sink, resourceType, namespace, name, EventTypeDeletion)
    IN IF detailedLogs /\ ShouldLog(eventFilters, EventTypeDeletion)
       THEN Info(s1, [event |-> "deletion", msg |-> "Resource deletion detected"])
       ELSE s1

\* variant: the line is gated by the mode only, not by the event filter
logNotFoundUnfiltered(sink, detailedLogs, eventFilters, resourceType, namespace, name) ==
    LET s1 == recordEvent(sink, resourceType, namespace, name, EventTypeNotFound)
    IN IF detailedLogs
       THEN Info(s1, [event |-> "not-found", msg |-> "Resource not found - likely deleted"])
       ELSE s1

logNotFound(sink, detailedLogs, eventFilters, resourceType, namespace, name) ==
    LET s1 == recordEvent(sink, resourceType, namespace, name, EventTypeNotFound)
    IN IF detailedLogs /\ ShouldLog(eventFilters, EventTypeNotFound)
       THEN Info(s1, [event |-> "not-found", msg |-> "Resource not found - likely deleted"])
       ELSE s1

\* variant: the event is recorded only when its line is shown
logCreateWhenShown(sink, detailedLogs, eventFilters, resourceType, namespace, name) ==
    IF detailedLogs /\ ShouldLog(eventFilters, EventTypeCreate)
    THEN Info(recordEvent(sink, resourceType, namespace, name, EventTypeCreate),
              [event |-> "create", msg |-> "First observation of resource"])
    ELSE sink

logCreate(sink, detailedLogs, eventFilters, resourceType, namespace, name) ==
    LET s1 == recordEvent(sink, resourceType, namespace, name, EventTypeCreate)
    IN IF detailedLogs /\ ShouldLog(eventFilters, EventTypeCreate)
       THEN Info(s1, [event |-> "create", msg |-> "First observation of resource"])
       ELSE s1

(***************************************************************************)
(* Object cache (cache.go)                                                 *)
(***************************************************************************)
NewObjectCache == [k \in Keys |-> NoEntry]

CacheGet(c, key) == [obj |-> c[key], exists |-> c[key] /= NoEntry]

\* variant: Set stores nothing
CacheSetNothing(c, key, obj) == c

CacheSet(c, key, obj) == [c EXCEPT ![key] = obj]

\* variant: Delete removes nothing
CacheDeleteNothing(c, key) == c

CacheDelete(c, key) == [c EXCEPT ![key] = NoEntry]

\* variant: the copy keeps the identity of the object and none of its metadata
DeepCopyWithoutMetadata(obj) ==
    [obj EXCEPT !.resourceVersion = "", !.annotations = NilValue, !.labels = NilValue]

\* variant: the copy loses the status of the object
DeepCopyWithoutStatus(obj) == [obj EXCEPT !.status = [conditions |-> NilValue]]

\* obj.DeepCopy(): a value equal to obj that shares nothing with it
DeepCopy(obj) == obj

(***************************************************************************)
(* Reconcilers.  r is the reconciler with its cache and the tracker it     *)
(* records into, req the request, fetched what r.Get returns for req.  The *)
(* value is what the invocation leaves behind: cache, tracker, the lines   *)
(* logged, the number of Get calls and whether an error is returned.       *)
(***************************************************************************)
FetchError == [err |-> "transient"]
NoFetch == [fetched |-> FALSE]

NoError == [err |-> "nil"]

\* the error r.Get returns with the fetched value
GetError(fetched) == IF fetched \in {NotFound, FetchError} THEN fetched ELSE NoError

\* apierrors.IsNotFound
IsNotFound(err) == err = NotFound

\* variant: every error is ignored
IgnoreAnyError(err) == NoError

\* client.IgnoreNotFound
IgnoreNotFound(err) == IF err = NotFound THEN NoError ELSE err

Sink(r) == [stats |-> r.stats, logs |-> <<>>]

Returns(c, sink, gets, err) ==
    [cache |-> c, stats |-> sink.stats, logs |-> sink.logs, gets |-> gets, err |-> err]

\* bundle_monitor.go:101-153
BundleReconcile(r, req, fetched) ==
    LET sink0 == Sink(r)
    IN IF GetError(fetched) /= NoError
       THEN IF IgnoreNotFound(GetError(fetched)) = NoError
            THEN Returns(r.cache,
                         logNotFound(sink0, r.DetailedLogs, r.EventFilters, "Bundle",
                                     req.namespace, req.name),
                         1, IgnoreNotFound(GetError(fetched)))
            ELSE Returns(r.cache, sink0, 1, IgnoreNotFound(GetError(fetched)))
       ELSE IF fetched.deleting
       THEN Returns(CacheDelete(r.cache, req),
                    logDeletion(sink0, r.DetailedLogs, r.EventFilters, "Bundle",
                                req.namespace, req.name),
                    1, NoError)
       ELSE IF ~CacheGet(r.cache, req).exists
       THEN Returns(CacheSet(r.cache, req, DeepCopy(fetched)),
                    logCreate(sink0, r.DetailedLogs, r.EventFilters, "Bundle",
                              req.namespace, req.name),
                    1, NoError)
       ELSE LET oldBundle == CacheGet(r.cache, req).obj
            IN LET namespace == req.namespace
                   name == req.name
                   s1 == logSpecChange(sink0, r.DetailedLogs, r.EventFilters, "Bundle",
                                       namespace, name, oldBundle.spec, fetched.spec,
                                       oldBundle.generation, fetched.generation)
                   s2 == logStatusChange(s1, r.DetailedLogs, r.EventFilters, "Bundle",
                                         namespace, name, oldBundle.status, fetched.status)
                   s3 == logResourceVersionChangeWithMetadata(s2, r.DetailedLogs, r.EventFilters,
                                         "Bundle", namespace, name, oldBundle, fetched)
                   s4 == logAnnotationChange(s3, r.DetailedLogs, r.EventFilters, "Bundle",
                                         namespace, name, oldBundle.annotations, fetched.annotations)
                   s5 == logLabelChange(s4, r.DetailedLogs, r.EventFilters, "Bundle",
                                         namespace, name, oldBundle.labels, fetched.labels)
               IN Returns(CacheSet(r.cache, req, DeepCopy(fetched)), s5, 1, NoError)

\* bundle_monitor.go:220-276
HelmAppReconcile(r, req, fetched) ==
    LET sink0 == Sink(r)
    IN IF ~Matches(r.ResourceFilter, req.namespace, req.name)
       THEN Returns(r.cache, sink0, 0, NoError)
       ELSE IF GetError(fetched) /= NoError
       THEN IF IgnoreNotFound(GetError(fetched)) = NoError
            THEN Returns(r.cache,
                         logNotFound(sink0, r.DetailedLogs, r.EventFilters, "HelmApp",
                                     req.namespace, req.name),
                         1, IgnoreNotFound(GetError(fetched)))
            ELSE Returns(r.cache, sink0, 1, IgnoreNotFound(GetError(fetched)))
       ELSE IF fetched.deleting
       THEN Returns(CacheDelete(r.cache, req),
                    logDeletion(sink0, r.DetailedLogs, r.EventFilters, "HelmApp",
                                req.namespace, req.name),
                    1, NoError)
       ELSE IF ~CacheGet(r.cache, req).exists
       THEN Returns(CacheSet(r.cache, req, DeepCopy(fetched)),
                    logCreate(sink0, r.DetailedLogs, r.EventFilters, "HelmApp",
                              req.namespace, req.name),
                    1, NoError)
       ELSE LET oldHelmApp == CacheGet(r.cache, req).obj
            IN LET namespace == req.namespace
                   name == req.name
                   s1 == logSpecChange(sink0, r.DetailedLogs, r.EventFilters, "HelmApp",
                                       namespace, name, oldHelmApp.spec, fetched.spec,
                                       oldHelmApp.generation, fetched.generation)
                   s2 == logStatusChange(s1, r.DetailedLogs, r.EventFilters, "HelmApp",
                                         namespace, name, oldHelmApp.status, fetched.status)
                   s3 == logResourceVersionChangeWithMetadata(s2, r.DetailedLogs, r.EventFilters,
                                         "HelmApp", namespace, name, oldHelmApp, fetched)
                   s4 == logAnnotationChange(s3, r.DetailedLogs, r.EventFilters, "HelmApp",
                                         namespace, name, oldHelmApp.annotations, fetched.annotations)
                   s5 == logLabelChange(s4, r.DetailedLogs, r.EventFilters, "HelmApp",
                                         namespace, name, oldHelmApp.labels, fetched.labels)
               IN Returns(CacheSet(r.cache, req, DeepCopy(fetched)), s5, 1, NoError)

\* bundledeployment_monitor.go:48-103
BundleDeploymentReconcile(r, req, fetched) ==
    LET sink0 == Sink(r)
    IN IF GetError(fetched) /= NoError
       THEN IF IgnoreNotFound(GetError(fetched)) = NoError
            THEN Returns(CacheDelete(r.cache, req),
                         logNotFound(sink0, r.DetailedLogs, r.EventFilters, "BundleDeployment",
                                     req.namespace, req.name),
                         1, IgnoreNotFound(GetError(fetched)))
            ELSE Returns(r.cache, sink0, 1, IgnoreNotFound(GetError(fetched)))
       ELSE IF fetched.deleting
       THEN Returns(CacheDelete(r.cache, req),
                    logDeletion(sink0, r.DetailedLogs, r.EventFilters, "BundleDeployment",
                                req.namespace, req.name),
                    1, NoError)
       ELSE IF ~CacheGet(r.cache, req).exists
       THEN Returns(CacheSet(r.cache, req, DeepCopy(fetched)),
                    logCreate(sink0, r.DetailedLogs, r.EventFilters, "BundleDeployment",
                              req.namespace, req.name),
                    1, NoError)
       ELSE LET oldBD == CacheGet(r.cache, req).obj
            IN LET namespace == req.namespace
                   name == req.name
                   s1 == logSpecChange(sink0, r.DetailedLogs, r.EventFilters, "BundleDeployment",
                                       namespace, name, oldBD.spec, fetched.spec,
                                       oldBD.generation, fetched.generation)
                   s2 == logStatusChange(s1, r.DetailedLogs, r.EventFilters, "BundleDeployment",
                                         namespace, name, oldBD.status, fetched.status)
                   s3 == logResourceVersionChangeWithMetadata(s2, r.DetailedLogs, r.EventFilters,
                                         "BundleDeployment", namespace, name, oldBD, fetched)
                   s4 == logAnnotationChange(s3, r.DetailedLogs, r.EventFilters, "BundleDeployment",
                                         namespace, name, oldBD.annotations, fetched.annotations)
                   s5 == logLabelChange(s4, r.DetailedLogs, r.EventFilters, "BundleDeployment",
                                         namespace, name, oldBD.labels, fetched.labels)
               IN Returns(CacheSet(r.cache, req, DeepCopy(fetched)), s5, 1, NoError)

\* cluster_monitor.go:93-138
ClusterReconcile(r, req, fetched) ==
    LET sink0 == Sink(r)
    IN IF GetError(fetched) /= NoError
       THEN IF IsNotFound(GetError(fetched))
            THEN Returns(CacheDelete(r.cache, req),
                         logNotFound(sink0, r.DetailedLogs, r.EventFilters, "Cluster",
                                     req.namespace, req.name),
                         1, IgnoreNotFound(GetError(fetched)))
            ELSE Returns(r.cache, sink0, 1, IgnoreNotFound(GetError(fetched)))
       ELSE IF fetched.deleting
       THEN Returns(CacheDelete(r.cache, req),
                    logDeletion(sink0, r.DetailedLogs, r.EventFilters, "Cluster",
                                req.namespace, req.name),
                    1, NoError)
       ELSE IF ~CacheGet(r.cache, req).exists
       THEN Returns(CacheSet(r.cache, req, DeepCopy(fetched)),
                    logCreate(sink0, r.DetailedLogs, r.EventFilters, "Cluster",
                              req.namespace, req.name),
                    1, NoError)
       ELSE LET oldCluster == CacheGet(r.cache, req).obj
            IN LET namespace == req.namespace
                   name == req.name
                   s1 == logSpecChange(sink0, r.DetailedLogs, r.EventFilters, "Cluster",
                                       namespace, name, oldCluster.spec, fetched.spec,
                                       oldCluster.generation, fetched.generation)
                   s2 == logStatusChange(s1, r.DetailedLogs, r.EventFilters, "Cluster",
                                         namespace, name, oldCluster.status, fetched.status)
                   s3 == logResourceVersionChangeWithMetadata(s2, r.DetailedLogs, r.EventFilters,
                                         "Cluster", namespace, name, oldCluster, fetched)
                   s4 == logAnnotationChange(s3, r.DetailedLogs, r.EventFilters, "Cluster",
                                         namespace, name, oldCluster.annotations, fetched.annotations)
                   s5 == logLabelChange(s4, r.DetailedLogs, r.EventFilters, "Cluster",
                                         namespace, name, oldCluster.labels, fetched.labels)
               IN Returns(CacheSet(r.cache, req, DeepCopy(fetched)), s5, 1, NoError)

\* gitrepo_monitor.go:62-165; Spec.Repo, Branch, Revision and ForceSyncGeneration
\* are the spec value of the model
GitRepoReconcile(r, req, fetched) ==
    LET sink0 == Sink(r)
    IN IF ~Matches(r.ResourceFilter, req.namespace, req.name)
       THEN Returns(r.cache, sink0, 0, NoError)
       ELSE IF GetError(fetched) /= NoError
       THEN IF IsNotFound(GetError(fetched))
            THEN Returns(CacheDelete(r.cache, req),
                         logNotFound(sink0, r.DetailedLogs, r.EventFilters, "GitRepo",
                                     req.namespace, req.name),
                         1, NoError)
            ELSE Returns(r.cache, sink0, 1, GetError(fetched))
       ELSE IF fetched.deleting
       THEN Returns(CacheDelete(r.cache, req),
                    logDeletion(sink0, r.DetailedLogs, r.EventFilters, "GitRepo",
                                req.namespace, req.name),
                    1, NoError)
       ELSE IF ~CacheGet(r.cache, req).exists
       THEN Returns(CacheSet(r.cache, req, DeepCopy(fetched)),
                    logCreate(sink0, r.DetailedLogs, r.EventFilters, "GitRepo",
                              req.namespace, req.name),
                    1, NoError)
       ELSE LET oldGitRepo == CacheGet(r.cache, req).obj
            IN LET namespace == req.namespace
                   name == req.name
                   s1 == logSpecChange(sink0, r.DetailedLogs, r.EventFilters, "GitRepo",
                                       namespace, name, oldGitRepo.spec, fetched.spec,
                                       oldGitRepo.generation, fetched.generation)
                   s2 == logStatusChange(s1, r.DetailedLogs, r.EventFilters, "GitRepo",
                                         namespace, name, oldGitRepo.status, fetched.status)
                   s3 == logResourceVersionChangeWithMetadata(s2, r.DetailedLogs, r.EventFilters,
                                         "GitRepo", namespace, name, oldGitRepo, fetched)
                   s4 == logAnnotationChange(s3, r.DetailedLogs, r.EventFilters, "GitRepo",
                                         namespace, name, oldGitRepo.annotations, fetched.annotations)
                   s5 == logLabelChange(s4, r.DetailedLogs, r.EventFilters, "GitRepo",
                                         namespace, name, oldGitRepo.labels, fetched.labels)
                   s6 == IF r.DetailedLogs /\ oldGitRepo.spec /= fetched.spec
                         THEN Info(s5, [event |-> "repo-change",
                                        msg |-> "Repository URL changed"])
                         ELSE s5
               IN Returns(CacheSet(r.cache, req, DeepCopy(fetched)), s6, 1, NoError)

(***************************************************************************)
(* Watch fan-out handlers.  Their value is the tracker, the lines logged   *)
(* and the requests handed to the work queue.                              *)
(***************************************************************************)
Enqueues(sink, requests) ==
    [stats |-> sink.stats, logs |-> sink.logs, requests |-> requests]

\* what target.BundleFromDeployment reads from the labels of a BundleDeployment
NilLabels == [isNil |-> TRUE]
BundleRefs == [namespace : {"", "fleet-default"}, name : {"", "b1"}]

\* bundle_monitor.go:58-80, the BundleDeployment watch of the Bundle monitor
BundleDeploymentToBundle(r, labels) ==
    IF labels = NilLabels THEN Enqueues(Sink(r), {})
    ELSE IF labels.namespace /= "" /\ labels.name /= ""
    THEN Enqueues(logRelatedResourceTrigger(Sink(r), r.DetailedLogs, r.EventFilters, "Bundle",
                                            labels.namespace, labels.name, "BundleDeployment"),
                  {[namespace |-> labels.namespace, name |-> labels.name]})
    ELSE Enqueues(Sink(r), {})

\* bundle_monitor.go:86-92, the Cluster watch of the Bundle monitor
ClusterToBundle(r) ==
    Enqueues(logRelatedResourceTrigger(Sink(r), r.DetailedLogs, r.EventFilters, "Bundle",
                                       "", "", "Cluster"),
             {})

\* cluster_monitor.go:141-164; annotations is what r.Get returned for the
\* namespace of the BundleDeployment, or FetchError
mapBundleDeploymentToCluster(r, annotations) ==
    IF annotations = FetchError THEN Enqueues(Sink(r), {})
    ELSE IF annotations.namespace = "" \/ annotations.name = "" THEN Enqueues(Sink(r), {})
    ELSE Enqueues(logRelatedResourceTrigger(Sink(r), r.DetailedLogs, r.EventFilters, "Cluster",
                                            annotations.namespace, annotations.name,
                                            "BundleDeployment"),
                  {[namespace |-> annotations.namespace, name |-> annotations.name]})

(***************************************************************************)
(* State machine                                                           *)
(***************************************************************************)
\* the reconciler of this run with the cache and tracker it works on
Reconciler(logging, c, s) ==
    [ cache |-> c, stats |-> s, DetailedLogs |-> logging.DetailedLogs,
      EventFilters |-> logging.EventFilters, ResourceFilter |-> cfg.ResourceFilter ]

Self == Reconciler(cfg, cache, stats)
Twin == Reconciler(twin, twin.cache, twin.stats)

NoKey == [namespace |-> "", name |-> ""]

\* what an operation added to the tracker: <<resource key, counter, amount>> for
\* every counter of every resource that is higher in after than in before
Counters == EventTypes \cup TriggerTypes \cup {"total_events"}

CounterOf(s, key, c) ==
    IF key \notin DOMAIN s THEN 0
    ELSE IF c \in EventTypes THEN s[key].Counts[c]
    ELSE IF c \in TriggerTypes THEN s[key].TriggeredBy[c]
    ELSE s[key].Total

Recorded(before, after) ==
    { <<t[1], t[2], CounterOf(after, t[1], t[2]) - CounterOf(before, t[1], t[2])>> :
        t \in { u \in (DOMAIN after) \X Counters :
                  CounterOf(after, u[1], u[2]) /= CounterOf(before, u[1], u[2]) } }

\* what a fetch showed of the object
Observed(fetched) ==
    IF fetched = NotFound THEN "gone"
    ELSE IF fetched.deleting THEN "deleting"
    ELSE "live"

Reconciled(key, fetched, out) ==
    /\ cache' = out.cache
    /\ seen' = IF out.gets = 0 \/ fetched = FetchError THEN seen
               ELSE [seen EXCEPT ![key] = Observed(fetched)]
    /\ stats' = out.stats
    /\ last' = [ op |-> "Reconcile", key |-> key,
                 fetched |-> IF out.gets = 0 THEN NoFetch ELSE fetched,
                 old |-> cache[key], saw |-> seen[key],
                 err |-> out.err, logs |-> out.logs,
                 gets |-> out.gets, requests |-> {},
                 recorded |-> Recorded(stats, out.stats) ]
    /\ UNCHANGED apart

Handled(name, out) ==
    /\ stats' = out.stats
    /\ last' = [ op |-> name, key |-> NoKey, fetched |-> NoFetch, old |-> NoEntry, saw |-> "nothing",
                 err |-> NoError, logs |-> out.logs, gets |-> 0,
                 requests |-> out.requests,
                 recorded |-> Recorded(stats, out.stats) ]
    /\ UNCHANGED apart

TwinReconciled(out) == twin' = [twin EXCEPT !.cache = out.cache, !.stats = out.stats]

TwinHandled(out) == twin' = [twin EXCEPT !.stats = out.stats]

\* r.Get reads the object of the key, or fails with a transient error
Fetches(key) == {api[key], FetchError}

\* variant: a reconcile that sees the object in deletion releases it, as a
\* controller owning a finalizer would
BundleReleasing(key) ==
    /\ cfg.kind = "Bundle"
    /\ TotalEvents(stats) < MaxEvents
    /\ \E fetched \in Fetches(key) :
          /\ Reconciled(key, fetched, BundleReconcile(Self, key, fetched))
          /\ TwinReconciled(BundleReconcile(Twin, key, fetched))
          /\ api' = IF fetched \notin {NotFound, FetchError} /\ fetched.deleting
                    THEN [api EXCEPT ![key] = NotFound]
                    ELSE api
    /\ UNCHANGED cfg

Bundle(key) ==
    /\ cfg.kind = "Bundle"
    /\ TotalEvents(stats) < MaxEvents
    /\ \E fetched \in Fetches(key) :
          /\ Reconciled(key, fetched, BundleReconcile(Self, key, fetched))
          /\ TwinReconciled(BundleReconcile(Twin, key, fetched))
    /\ UNCHANGED <<api, cfg>>

BundleDeployment(key) ==
    /\ cfg.kind = "BundleDeployment"
    /\ TotalEvents(stats) < MaxEvents
    /\ \E fetched \in Fetches(key) :
          /\ Reconciled(key, fetched, BundleDeploymentReconcile(Self, key, fetched))
          /\ TwinReconciled(BundleDeploymentReconcile(Twin, key, fetched))
    /\ UNCHANGED <<api, cfg>>

Cluster(key) ==
    /\ cfg.kind = "Cluster"
    /\ TotalEvents(stats) < MaxEvents
    /\ \E fetched \in Fetches(key) :
          /\ Reconciled(key, fetched, ClusterReconcile(Self, key, fetched))
          /\ TwinReconciled(ClusterReconcile(Twin, key, fetched))
    /\ UNCHANGED <<api, cfg>>

GitRepo(key) ==
    /\ cfg.kind = "GitRepo"
    /\ TotalEvents(stats) < MaxEvents
    /\ \E fetched \in Fetches(key) :
          /\ Reconciled(key, fetched, GitRepoReconcile(Self, key, fetched))
          /\ TwinReconciled(GitRepoReconcile(Twin, key, fetched))
    /\ UNCHANGED <<api, cfg>>

HelmApp(key) ==
    /\ cfg.kind = "HelmApp"
    /\ TotalEvents(stats) < MaxEvents
    /\ \E fetched \in Fetches(key) :
          /\ Reconciled(key, fetched, HelmAppReconcile(Self, key, fetched))
          /\ TwinReconciled(HelmAppReconcile(Twin, key, fetched))
    /\ UNCHANGED <<api, cfg>>

BundleDeploymentEventForBundle ==
    /\ cfg.kind = "Bundle"
    /\ TotalEvents(stats) < MaxEvents
    /\ \E labels \in BundleRefs \cup {NilLabels} :
          /\ Handled("BundleDeploymentToBundle", BundleDeploymentToBundle(Self, labels))
          /\ TwinHandled(BundleDeploymentToBundle(Twin, labels))
    /\ UNCHANGED <<api, cache, cfg, seen>>

ClusterEventForBundle ==
    /\ cfg.kind = "Bundle"
    /\ TotalEvents(stats) < MaxEvents
    /\ Handled("ClusterToBundle", ClusterToBundle(Self))
    /\ TwinHandled(ClusterToBundle(Twin))
    /\ UNCHANGED <<api, cache, cfg, seen>>

BundleDeploymentEventForCluster ==
    /\ cfg.kind = "Cluster"
    /\ TotalEvents(stats) < MaxEvents
    /\ \E annotations \in BundleRefs \cup {FetchError} :
          /\ Handled("mapBundleDeploymentToCluster",
                     mapBundleDeploymentToCluster(Self, annotations))
          /\ TwinHandled(mapBundleDeploymentToCluster(Twin, annotations))
    /\ UNCHANGED <<api, cache, cfg, seen>>

\* another client of the API server creates, updates or deletes the object
ServedObjects ==
    { [ generation |-> v.generation, spec |-> v.spec,
        status |-> [conditions |-> SetValue({"Ready"})],
        resourceVersion |-> v.resourceVersion,
        annotations |-> NilValue,
        labels |-> SetValue({<<"k", "v">>}),
        finalizers |-> SetValue({"fleet.cattle.io/finalizer"}),
        deleting |-> d ] :
      v \in { [generation |-> 1, spec |-> "spec-a", resourceVersion |-> "100"],
              [generation |-> 2, spec |-> "spec-b", resourceVersion |-> "101"] },
      d \in BOOLEAN }

ApiChange(key) ==
    /\ TotalEvents(stats) < MaxEvents
    /\ \E v \in (ServedObjects \cup {NotFound}) \ {api[key]} :
          api' = [api EXCEPT ![key] = v]
    /\ last' = [ op |-> "ApiChange", key |-> NoKey, fetched |-> NoFetch, old |-> NoEntry, saw |-> "nothing",
                 err |-> NoError, logs |-> <<>>, gets |-> 0, requests |-> {},
                 recorded |-> {} ]
    /\ UNCHANGED <<cache, stats, cfg, twin, seen, apart>>

(***************************************************************************)
(* Configurations                                                          *)
(***************************************************************************)
NoFilters == [ GenerationChange |-> FALSE, StatusChange |-> FALSE,
               AnnotationChange |-> FALSE, LabelChange |-> FALSE,
               ResourceVersionChange |-> FALSE, Deletion |-> FALSE,
               NotFound |-> FALSE, Create |-> FALSE, TriggeredBy |-> FALSE ]

\* the ResourceFilter field exists in the GitRepo and HelmApp monitors only
ResourceFilters(kind) ==
    IF kind \in {"GitRepo", "HelmApp"}
    THEN { NilFilter,
           [ NamespacePattern |-> "", NamePattern |-> "^b1$",
             namespaceRegex |-> FALSE, nameRegex |-> TRUE ] }
    ELSE { NilFilter }

\* a logging mode is the DetailedLogs flag with the EventFilters value
Configs(loggings) ==
    { c \in [ kind : Kinds, DetailedLogs : BOOLEAN, EventFilters : EventTypeFilters,
              ResourceFilter : UNION { ResourceFilters(k) : k \in Kinds } ] :
        /\ c.ResourceFilter \in ResourceFilters(c.kind)
        /\ [DetailedLogs |-> c.DetailedLogs, EventFilters |-> c.EventFilters] \in loggings }

\* summary mode as shipped, and detailed mode showing create lines only
LifecycleLoggings ==
    { [DetailedLogs |-> FALSE, EventFilters |-> NoFilters],
      [DetailedLogs |-> TRUE, EventFilters |-> [NoFilters EXCEPT !.Create = TRUE]] }

Started == [ op |-> "Start", key |-> NoKey, fetched |-> NoFetch, old |-> NoEntry, saw |-> "nothing",
             err |-> NoError, logs |-> <<>>, gets |-> 0, requests |-> {},
             recorded |-> {} ]

\* the twin logs every line: detailed mode, no filter set
TwinOf(c, s) ==
    [ DetailedLogs |-> TRUE, EventFilters |-> NoFilters, cache |-> c, stats |-> s ]

\* the components exercised on their own are as constructed
Unallocated == [allocated |-> FALSE]

\* the keys the monitors record under: a namespaced resource, a second one of
\* the same type, and the key of the Cluster watch of the Bundle monitor
StatKeys ==
    { ResourceKey("Bundle", "fleet-default", "b1"),
      ResourceKey("Bundle", "fleet-local", "b2"),
      ResourceKey("Bundle", "", "") }

NoCalls == [k \in StatKeys |-> [c \in EventTypes \cup TriggerTypes |-> 0]]

Workers == 1..MaxWorkers

\* sync.RWMutex, unlocked; no worker is number 0
RWMutex == [writer |-> 0, readers |-> {}]

\* a worker outside any tracker call
Idle == [ pc |-> "idle", op |-> "none", key |-> ResourceKey("", "", ""), counter |-> "none",
          tmp |-> 0, summary |-> [none |-> TRUE], contended |-> FALSE ]

NoSubject == [none |-> TRUE]
NoCall == [fn |-> "none"]

\* no summary printer runs
NotStarted == [pc |-> "none"]

TrackerInit ==
    /\ heap = [a \in 1..MaxObjects |-> Unallocated]
    /\ held = {}
    /\ now = 0
    /\ lastSummaryTime = 0
    /\ history = [calls |-> NoCalls, anchoredBy |-> "NewStatsTracker", anchoredAt |-> 0]
    /\ mu = RWMutex
    /\ work = [w \in Workers |-> Idle]

ComponentInit ==
    /\ TrackerInit
    /\ printer = NotStarted

ApartInit ==
    /\ ComponentInit
    /\ subject = NoSubject
    /\ applied = NoCall

(***************************************************************************)
(* Spec: a reconciler from its start, with other clients writing the       *)
(* objects it watches.                                                     *)
(***************************************************************************)
Init ==
    /\ api = [k \in Keys |-> NotFound]
    /\ cache = NewObjectCache
    /\ stats = NewStatsTracker
    /\ cfg \in Configs(LifecycleLoggings)
    /\ last = Started
    /\ twin = TwinOf(cache, stats)
    /\ seen = [k \in Keys |-> "nothing"]
    /\ ApartInit

Next ==
    \/ \E key \in Keys : Bundle(key)
    \/ \E key \in Keys : BundleDeployment(key)
    \/ \E key \in Keys : Cluster(key)
    \/ \E key \in Keys : GitRepo(key)
    \/ \E key \in Keys : HelmApp(key)
    \/ BundleDeploymentEventForBundle
    \/ ClusterEventForBundle
    \/ BundleDeploymentEventForCluster
    \/ \E key \in Keys : ApiChange(key)

Spec == Init /\ [][Next]_vars

(***************************************************************************)
(* Single operations on every input.  The reconciler has run before: its   *)
(* cache holds an earlier observation of the first key (or none), the API  *)
(* server holds any object for it, and the tracker is one event short of   *)
(* MaxEvents from reconciles of the absent second key.                     *)
(***************************************************************************)
K1 == [namespace |-> "fleet-default", name |-> "b1"]
K2 == [namespace |-> "fleet-local", name |-> "b2"]

RECURSIVE PriorEvents(_, _)
PriorEvents(kind, n) ==
    IF n <= 0 THEN NewStatsTracker
    ELSE RecordEvent(PriorEvents(kind, n - 1), kind, K2.namespace, K2.name,
                     EventTypeNotFound)

InitStep(loggings, olds, news) ==
    /\ cfg \in { c \in Configs(loggings) : c.ResourceFilter = NilFilter }
    /\ cache \in { [NewObjectCache EXCEPT ![K1] = old] : old \in olds }
    /\ api \in { [k \in Keys |-> IF k = K1 THEN new ELSE NotFound] : new \in news }
    /\ stats = PriorEvents(cfg.kind, MaxEvents - 1)
    /\ last = Started
    /\ twin = TwinOf(cache, stats)
    /\ seen = [k \in Keys |-> IF cache[k] = NoEntry THEN "nothing" ELSE "live"]
    /\ ApartInit

(***************************************************************************)
(* SpecDiff: one reconcile of the first key for every cached and fetched   *)
(* object.                                                                 *)
(***************************************************************************)
Live == { o \in WatchedObjects : ~o.deleting }

\* cached observations: nil or set status, annotations and labels
Seeds ==
    { o \in Live :
        /\ o.generation = 1
        /\ o.spec = "spec-a"
        /\ o.resourceVersion = "100"
        /\ o.finalizers = NilValue
        /\ o.status.conditions /= EmptyValue
        /\ o.annotations /= EmptyValue
        /\ o.labels /= EmptyValue }

DiffLoggings == { [DetailedLogs |-> TRUE, EventFilters |-> NoFilters] }

InitDiff == InitStep(DiffLoggings, Seeds \cup {NoEntry}, WatchedObjects \cup {NotFound})

NextDiff ==
    \/ Bundle(K1)
    \/ BundleDeployment(K1)
    \/ Cluster(K1)
    \/ GitRepo(K1)
    \/ HelmApp(K1)

SpecDiff == InitDiff /\ [][NextDiff]_vars

(***************************************************************************)
(* SpecLog: one reconcile or watch notification under every logging mode   *)
(* that sets no flag, one flag or all flags.                               *)
(***************************************************************************)
AllFilters == [ GenerationChange |-> TRUE, StatusChange |-> TRUE,
                AnnotationChange |-> TRUE, LabelChange |-> TRUE,
                ResourceVersionChange |-> TRUE, Deletion |-> TRUE,
                NotFound |-> TRUE, Create |-> TRUE, TriggeredBy |-> TRUE ]

OneFlagFilters ==
    { [NoFilters EXCEPT !.GenerationChange = TRUE], [NoFilters EXCEPT !.StatusChange = TRUE],
      [NoFilters EXCEPT !.AnnotationChange = TRUE], [NoFilters EXCEPT !.LabelChange = TRUE],
      [NoFilters EXCEPT !.ResourceVersionChange = TRUE], [NoFilters EXCEPT !.Deletion = TRUE],
      [NoFilters EXCEPT !.NotFound = TRUE], [NoFilters EXCEPT !.Create = TRUE],
      [NoFilters EXCEPT !.TriggeredBy = TRUE] }

LogLoggings ==
    [ DetailedLogs : BOOLEAN,
      EventFilters : {NoFilters, AllFilters} \cup OneFlagFilters ]

\* the cached observation of SpecLog, and the objects that differ from it in
\* any of generation, status, resource version, annotations and labels
LogSeed ==
    [ generation |-> 1, spec |-> "spec-a", status |-> [conditions |-> NilValue],
      resourceVersion |-> "100", annotations |-> NilValue, labels |-> NilValue,
      finalizers |-> NilValue, deleting |-> FALSE ]

LogObjects ==
    { o \in WatchedObjects :
        /\ o.finalizers = NilValue
        /\ o.status.conditions /= EmptyValue
        /\ o.annotations /= EmptyValue
        /\ o.labels /= EmptyValue
        /\ (o.deleting => o = [LogSeed EXCEPT !.deleting = TRUE]) }

InitLog == InitStep(LogLoggings, {LogSeed, NoEntry}, LogObjects \cup {NotFound})

NextLog ==
    \/ Bundle(K1)
    \/ BundleDeployment(K1)
    \/ Cluster(K1)
    \/ GitRepo(K1)
    \/ HelmApp(K1)
    \/ BundleDeploymentEventForBundle
    \/ ClusterEventForBundle
    \/ BundleDeploymentEventForCluster

SpecLog == InitLog /\ [][NextLog]_vars

(***************************************************************************)
(* SpecRepeat: reconciles of the first key, one after the other, while the *)
(* object on the API server stays as it is.  The tracker is two events     *)
(* short of MaxEvents, so that a reconcile that recorded at most one event *)
(* is followed by another.                                                 *)
(***************************************************************************)
InitRepeat ==
    /\ cfg \in { c \in Configs(DiffLoggings) : c.ResourceFilter = NilFilter }
    /\ cache \in { [NewObjectCache EXCEPT ![K1] = old] : old \in {LogSeed, NoEntry} }
    /\ api \in { [k \in Keys |-> IF k = K1 THEN new ELSE NotFound] : new \in LogObjects }
    /\ stats = PriorEvents(cfg.kind, MaxEvents - 2)
    /\ last = Started
    /\ twin = TwinOf(cache, stats)
    /\ seen = [k \in Keys |-> IF cache[k] = NoEntry THEN "nothing" ELSE "live"]
    /\ ApartInit

SpecRepeat == InitRepeat /\ [][NextDiff]_vars

(***************************************************************************)
(* SpecCache: the object cache and a caller that holds pointers to objects *)
(* on the heap.  A cache entry is the pointer Set was given; what Get      *)
(* shows of a key is the object at that pointer.                           *)
(***************************************************************************)
Pointer(a) == [addr |-> a]

\* the objects a caller writes: the seed object without and with a label
HeapObjects == { LogSeed, [LogSeed EXCEPT !.labels = SetValue({<<"k", "v">>})] }

Allocated == { a \in DOMAIN heap : heap[a] /= Unallocated }

\* what the caller reads through the pointer Get(key) returns
GetValue(c, h, key) ==
    IF CacheGet(c, key).exists THEN h[CacheGet(c, key).obj.addr] ELSE NoEntry

NoStep == [op |-> "none", key |-> NoKey, addr |-> 0]

CacheStep(op, key, a, after) == [op |-> op, key |-> key, addr |-> a, after |-> after]

\* obj := &fleet.Bundle{} filled by r.Get: a new object the caller holds
NewObject ==
    /\ Allocated /= DOMAIN heap
    /\ LET a == CHOOSE x \in DOMAIN heap \ Allocated :
                    \A y \in DOMAIN heap \ Allocated : x <= y
       IN \E v \in HeapObjects :
             /\ heap' = [heap EXCEPT ![a] = v]
             /\ held' = held \cup {a}
             /\ last' = CacheStep("New", NoKey, a, NoStep)
    /\ UNCHANGED <<api, cache, stats, cfg, twin, seen, now, lastSummaryTime, history, mu, work, pure>>

\* cache.Set(key, obj)
SetObject(key) ==
    /\ \E a \in held :
          /\ cache' = CacheSet(cache, key, Pointer(a))
          /\ last' = CacheStep("Set", key, a, NoStep)
    /\ UNCHANGED <<api, stats, cfg, twin, seen, heap, held, now, lastSummaryTime, history,
                   mu, work, pure>>

\* variant: the object is stored without DeepCopy
SetCopyShared(key) ==
    /\ \E a \in held :
          /\ cache' = CacheSet(cache, key, Pointer(a))
          /\ last' = CacheStep("SetCopy", key, a, NoStep)
    /\ UNCHANGED <<api, stats, cfg, twin, seen, heap, held, now, lastSummaryTime, history,
                   mu, work, pure>>

\* r.cache.Set(req.NamespacedName, bundle.DeepCopy()): the copy is a new object
\* only the cache points to
SetCopy(key) ==
    /\ Allocated /= DOMAIN heap
    /\ LET b == CHOOSE x \in DOMAIN heap \ Allocated :
                    \A y \in DOMAIN heap \ Allocated : x <= y
       IN \E a \in held :
             /\ heap' = [heap EXCEPT ![b] = DeepCopy(heap[a])]
             /\ cache' = CacheSet(cache, key, Pointer(b))
             /\ last' = CacheStep("SetCopy", key, a, NoStep)
    /\ UNCHANGED <<api, stats, cfg, twin, seen, held, now, lastSummaryTime, history, mu, work, pure>>

\* cache.Get(key): the caller now holds the stored pointer
GetObject(key) ==
    /\ CacheGet(cache, key).exists
    /\ held' = held \cup {CacheGet(cache, key).obj.addr}
    /\ last' = CacheStep("Get", key, CacheGet(cache, key).obj.addr, NoStep)
    /\ UNCHANGED <<api, cache, stats, cfg, twin, seen, heap, now, lastSummaryTime, history,
                   mu, work, pure>>

\* cache.Delete(key)
DeleteObject(key) ==
    /\ CacheGet(cache, key).exists
    /\ cache' = CacheDelete(cache, key)
    /\ last' = CacheStep("Delete", key, 0, NoStep)
    /\ UNCHANGED <<api, stats, cfg, twin, seen, heap, held, now, lastSummaryTime, history,
                   mu, work, pure>>

\* the caller changes the object behind a pointer it holds
WriteObject ==
    /\ \E a \in held : \E v \in HeapObjects \ {heap[a]} :
          /\ heap' = [heap EXCEPT ![a] = v]
          /\ last' = CacheStep("Write", NoKey, a,
                               [op |-> last.op, key |-> last.key, addr |-> last.addr])
    /\ UNCHANGED <<api, cache, stats, cfg, twin, seen, held, now, lastSummaryTime, history,
                   mu, work, pure>>

InitCache ==
    /\ api = [k \in Keys |-> NotFound]
    /\ cache = NewObjectCache
    /\ stats = NewStatsTracker
    /\ cfg = [ kind |-> "Bundle", DetailedLogs |-> FALSE, EventFilters |-> NoFilters,
               ResourceFilter |-> NilFilter ]
    /\ last = CacheStep("Start", NoKey, 0, NoStep)
    /\ twin = TwinOf(cache, stats)
    /\ seen = [k \in Keys |-> "nothing"]
    /\ ApartInit

NextCache ==
    \/ NewObject
    \/ \E key \in Keys : SetObject(key)
    \/ \E key \in Keys : SetCopy(key)
    \/ \E key \in Keys : GetObject(key)
    \/ \E key \in Keys : DeleteObject(key)
    \/ WriteObject

SpecCache == InitCache /\ [][NextCache]_vars

(***************************************************************************)
(* SpecStats: the statistics tracker called by one goroutine at a time,    *)
(* while the clock runs.                                                   *)
(***************************************************************************)
NoSummary == [none |-> TRUE]

StatsStep(op, summary) == [op |-> op, summary |-> summary]

RecordEventCall(key, eventType) ==
    /\ TotalEvents(stats) < MaxEvents
    /\ stats' = RecordEvent(stats, key.ResourceType, key.Namespace, key.Name, eventType)
    /\ history' = [history EXCEPT !.calls[key][eventType] = @ + 1]
    /\ last' = StatsStep("RecordEvent", NoSummary)
    /\ UNCHANGED <<api, cache, cfg, twin, seen, heap, held, now, lastSummaryTime, mu, work, pure>>

RecordTriggerCall(key, triggerResourceType) ==
    /\ TotalEvents(stats) < MaxEvents
    /\ stats' = RecordTrigger(stats, key.ResourceType, key.Namespace, key.Name,
                              triggerResourceType)
    /\ history' = [history EXCEPT !.calls[key][triggerResourceType] = @ + 1]
    /\ last' = StatsStep("RecordTrigger", NoSummary)
    /\ UNCHANGED <<api, cache, cfg, twin, seen, heap, held, now, lastSummaryTime, mu, work, pure>>

GetSummaryCall ==
    /\ \E w \in Visits(stats) :
          last' = StatsStep("GetSummary", GetSummary(stats, lastSummaryTime, now, w))
    /\ UNCHANGED <<api, cache, stats, cfg, twin, seen, apart>>

ResetCall ==
    /\ stats' = Reset(lastSummaryTime, now).stats
    /\ lastSummaryTime' = Reset(lastSummaryTime, now).lastSummaryTime
    /\ history' = [calls |-> NoCalls, anchoredBy |-> "Reset", anchoredAt |-> now]
    /\ last' = StatsStep("Reset", NoSummary)
    /\ UNCHANGED <<api, cache, cfg, twin, seen, heap, held, now, mu, work, pure>>

UpdateLastSummaryTimeCall ==
    /\ lastSummaryTime' = UpdateLastSummaryTime(now)
    /\ history' = [history EXCEPT !.anchoredBy = "UpdateLastSummaryTime",
                                  !.anchoredAt = now]
    /\ last' = StatsStep("UpdateLastSummaryTime", NoSummary)
    /\ UNCHANGED <<api, cache, stats, cfg, twin, seen, heap, held, now, mu, work, pure>>

\* a second passes
Tick ==
    /\ now < MaxTime
    /\ now' = now + 1
    /\ last' = StatsStep("Tick", NoSummary)
    /\ UNCHANGED <<api, cache, stats, cfg, twin, seen, heap, held, lastSummaryTime, history,
                   mu, work, pure>>

InitStats ==
    /\ api = [k \in Keys |-> NotFound]
    /\ cache = NewObjectCache
    /\ stats = NewStatsTracker
    /\ cfg = [ kind |-> "Bundle", DetailedLogs |-> FALSE, EventFilters |-> NoFilters,
               ResourceFilter |-> NilFilter ]
    /\ last = StatsStep("NewStatsTracker", NoSummary)
    /\ twin = TwinOf(cache, stats)
    /\ seen = [k \in Keys |-> "nothing"]
    /\ ApartInit

NextStats ==
    \/ \E key \in StatKeys, eventType \in EventTypes : RecordEventCall(key, eventType)
    \/ \E key \in StatKeys, triggerType \in TriggerTypes : RecordTriggerCall(key, triggerType)
    \/ GetSummaryCall
    \/ ResetCall
    \/ UpdateLastSummaryTimeCall
    \/ Tick

SpecStats == InitStats /\ [][NextStats]_vars

(***************************************************************************)
(* SpecWorkers: worker goroutines calling the tracker concurrently.  A     *)
(* call is a sequence of steps: take the lock, create the entry if absent, *)
(* read and write the counter, read and write the total, release the lock. *)
(***************************************************************************)
\* variant: Lock does not wait
LockNeverWaits(m) == TRUE

\* s.mu.Lock() returns when there is neither a writer nor a reader
LockAvailable(m) == m.writer = 0 /\ m.readers = {}

\* s.mu.RLock() returns when there is no writer
RLockAvailable(m) == m.writer = 0

\* the keys and counters the workers record
WorkerKeys == { ResourceKey("Bundle", "fleet-default", "b1"), ResourceKey("Bundle", "", "") }
WorkerCalls ==
    [op : {"RecordEvent"}, key : WorkerKeys, counter : {EventTypeCreate}]
    \cup [op : {"RecordTrigger"}, key : WorkerKeys, counter : {"Cluster"}]

RECURSIVE CallsMade(_, _)
CallsMade(calls, keys) ==
    IF keys = {} THEN 0
    ELSE LET k == CHOOSE x \in keys : TRUE
         IN calls[k][EventTypeCreate] + calls[k]["Cluster"] + CallsMade(calls, keys \ {k})

Busy(w) == work[w].pc /= "idle"

WorkersFrame == UNCHANGED <<api, cache, cfg, last, twin, seen, heap, held, now, lastSummaryTime, pure>>

\* a worker enters RecordEvent or RecordTrigger
Invoke(w) ==
    /\ ~Busy(w)
    /\ CallsMade(history.calls, WorkerKeys) < MaxEvents
    /\ \E call \in WorkerCalls :
          /\ work' = [work EXCEPT ![w] =
                         [ pc |-> "Lock", op |-> call.op, key |-> call.key,
                           counter |-> call.counter, tmp |-> 0, summary |-> [none |-> TRUE],
                           contended |-> \E v \in Workers \ {w} : Busy(v) ]]
          /\ history' = [history EXCEPT !.calls[call.key][call.counter] = @ + 1]
    /\ UNCHANGED <<stats, mu>>
    /\ WorkersFrame

\* stats.go:89,111
Lock(w) ==
    /\ work[w].pc = "Lock"
    /\ LockAvailable(mu)
    /\ mu' = [mu EXCEPT !.writer = w]
    /\ work' = [work EXCEPT ![w].pc = "Entry"]
    /\ UNCHANGED <<stats, history>>
    /\ WorkersFrame

\* stats.go:98-103,120-125
Entry(w) ==
    /\ work[w].pc = "Entry"
    /\ stats' = WithEntry(stats, work[w].key)
    /\ work' = [work EXCEPT ![w].pc = "ReadCounter"]
    /\ UNCHANGED <<mu, history>>
    /\ WorkersFrame

\* stats.go:105,127: the read of Counts[eventType]++ / TriggeredBy[type]++
ReadCounter(w) ==
    /\ work[w].pc = "ReadCounter"
    /\ work' = [work EXCEPT ![w].pc = "WriteCounter",
                            ![w].tmp = CounterOf(stats, work[w].key, work[w].counter)]
    /\ UNCHANGED <<stats, mu, history>>
    /\ WorkersFrame

\* stats.go:105,127: the write of Counts[eventType]++ / TriggeredBy[type]++
WriteCounter(w) ==
    /\ work[w].pc = "WriteCounter"
    /\ stats' = IF work[w].op = "RecordEvent"
                THEN [stats EXCEPT ![work[w].key].Counts[work[w].counter] = work[w].tmp + 1]
                ELSE [stats EXCEPT ![work[w].key].TriggeredBy[work[w].counter] = work[w].tmp + 1]
    /\ work' = [work EXCEPT ![w].pc = "ReadTotal"]
    /\ UNCHANGED <<mu, history>>
    /\ WorkersFrame

\* stats.go:106,128: the read of Total++
ReadTotal(w) ==
    /\ work[w].pc = "ReadTotal"
    /\ work' = [work EXCEPT ![w].pc = "WriteTotal", ![w].tmp = stats[work[w].key].Total]
    /\ UNCHANGED <<stats, mu, history>>
    /\ WorkersFrame

\* stats.go:106,128: the write of Total++
WriteTotal(w) ==
    /\ work[w].pc = "WriteTotal"
    /\ stats' = [stats EXCEPT ![work[w].key].Total = work[w].tmp + 1]
    /\ work' = [work EXCEPT ![w].pc = "Unlock"]
    /\ UNCHANGED <<mu, history>>
    /\ WorkersFrame

\* stats.go:90,112: defer s.mu.Unlock()
Unlock(w) ==
    /\ work[w].pc = "Unlock"
    /\ mu' = [mu EXCEPT !.writer = IF @ = w THEN 0 ELSE @]
    /\ work' = [work EXCEPT ![w].pc = "idle"]
    /\ UNCHANGED <<stats, history>>
    /\ WorkersFrame

\* a worker enters GetSummary
InvokeSummary(w) ==
    /\ ~Busy(w)
    /\ work' = [work EXCEPT ![w] =
                   [ pc |-> "RLock", op |-> "GetSummary", key |-> ResourceKey("", "", ""),
                     counter |-> "none", tmp |-> 0, summary |-> [none |-> TRUE],
                     contended |-> \E v \in Workers \ {w} : Busy(v) ]]
    /\ UNCHANGED <<stats, mu, history>>
    /\ WorkersFrame

\* stats.go:147
RLock(w) ==
    /\ work[w].pc = "RLock"
    /\ RLockAvailable(mu)
    /\ mu' = [mu EXCEPT !.readers = @ \cup {w}]
    /\ work' = [work EXCEPT ![w].pc = "Copy"]
    /\ UNCHANGED <<stats, history>>
    /\ WorkersFrame

\* stats.go:150-187
Copy(w) ==
    /\ work[w].pc = "Copy"
    /\ \E visit \in Visits(stats) :
          work' = [work EXCEPT ![w].pc = "RUnlock",
                               ![w].summary = GetSummary(stats, lastSummaryTime, now, visit)]
    /\ UNCHANGED <<stats, mu, history>>
    /\ WorkersFrame

\* stats.go:148: defer s.mu.RUnlock(); the caller keeps the summary
RUnlock(w) ==
    /\ work[w].pc = "RUnlock"
    /\ mu' = [mu EXCEPT !.readers = @ \ {w}]
    /\ work' = [work EXCEPT ![w].pc = "idle"]
    /\ UNCHANGED <<stats, history>>
    /\ WorkersFrame

NextWorkers ==
    \/ \E w \in Workers : Invoke(w)
    \/ \E w \in Workers : Lock(w)
    \/ \E w \in Workers : Entry(w)
    \/ \E w \in Workers : ReadCounter(w)
    \/ \E w \in Workers : WriteCounter(w)
    \/ \E w \in Workers : ReadTotal(w)
    \/ \E w \in Workers : WriteTotal(w)
    \/ \E w \in Workers : Unlock(w)
    \/ \E w \in Workers : InvokeSummary(w)
    \/ \E w \in Workers : RLock(w)
    \/ \E w \in Workers : Copy(w)
    \/ \E w \in Workers : RUnlock(w)

SpecWorkers == InitStats /\ [][NextWorkers]_vars

(***************************************************************************)
(* SpecEventFilters: the methods of EventTypeFilters on every filter value *)
(* and every event type, one that no case of the switch names included.    *)
(***************************************************************************)
\* an EventType value that is none of the declared constants
UnknownEventType == "unknown"

Applied(fn, args, result) == [fn |-> fn, args |-> args, result |-> result]

PureFrame ==
    UNCHANGED <<api, cache, stats, cfg, last, twin, seen, heap, held, now, lastSummaryTime,
                history, mu, work, printer>>

IsEmptyCall ==
    /\ applied' = Applied("IsEmpty", <<>>, IsEmpty(subject))
    /\ UNCHANGED subject
    /\ PureFrame

ShouldLogCall(eventType) ==
    /\ applied' = Applied("ShouldLog", <<eventType>>, ShouldLog(subject, eventType))
    /\ UNCHANGED subject
    /\ PureFrame

ShouldLogTriggerCall ==
    /\ applied' = Applied("ShouldLogTrigger", <<>>, ShouldLogTrigger(subject))
    /\ UNCHANGED subject
    /\ PureFrame

\* the rest of the state as constructed
InitPure ==
    /\ api = [k \in Keys |-> NotFound]
    /\ cache = NewObjectCache
    /\ stats = NewStatsTracker
    /\ cfg = [ kind |-> "Bundle", DetailedLogs |-> FALSE, EventFilters |-> NoFilters,
               ResourceFilter |-> NilFilter ]
    /\ last = Started
    /\ twin = TwinOf(cache, stats)
    /\ seen = [k \in Keys |-> "nothing"]
    /\ ComponentInit
    /\ applied = NoCall

InitEventFilters ==
    /\ InitPure
    /\ subject \in EventTypeFilters

NextEventFilters ==
    \/ IsEmptyCall
    \/ \E eventType \in EventTypes \cup {UnknownEventType} : ShouldLogCall(eventType)
    \/ ShouldLogTriggerCall

SpecEventFilters == InitEventFilters /\ [][NextEventFilters]_vars

(***************************************************************************)
(* SpecResourceFilter: Compile and Matches on filters as the command line  *)
(* builds them (patterns from the environment, regexes not yet compiled).  *)
(***************************************************************************)
\* "[" is not a regular expression
Patterns == {"", "^fleet-default$", "^b1$", "["}

\* regexp.Compile returns a regex and no error
ValidPattern(pattern) == pattern \in {"^fleet-default$", "^b1$"}

InvalidPattern(field, pattern) == [invalid |-> field, pattern |-> pattern]

\* the filter after Compile and the error Compile returns
Compile(f) ==
    IF f = NilFilter THEN [filter |-> f, err |-> NoError]
    ELSE LET f1 == IF f.NamespacePattern /= ""
                   THEN [f EXCEPT !.namespaceRegex = ValidPattern(f.NamespacePattern)]
                   ELSE f
         IN IF f.NamespacePattern /= "" /\ ~ValidPattern(f.NamespacePattern)
            THEN [filter |-> f1, err |-> InvalidPattern("namespace", f.NamespacePattern)]
            ELSE LET f2 == IF f.NamePattern /= ""
                           THEN [f1 EXCEPT !.nameRegex = ValidPattern(f.NamePattern)]
                           ELSE f1
                 IN IF f.NamePattern /= "" /\ ~ValidPattern(f.NamePattern)
                    THEN [filter |-> f2, err |-> InvalidPattern("name", f.NamePattern)]
                    ELSE [filter |-> f2, err |-> NoError]

\* &reconciler.ResourceFilter{NamespacePattern: ..., NamePattern: ...}, or no filter
ParsedFilters ==
    {NilFilter} \cup [ NamespacePattern : Patterns, NamePattern : Patterns,
                       namespaceRegex : {FALSE}, nameRegex : {FALSE} ]

FilterNamespaces == {"fleet-default", "fleet-local", ""}
FilterNames == {"b1", "b2"}

CompileCall ==
    /\ ~subject.compiled
    /\ subject' = [filter |-> Compile(subject.filter).filter, compiled |-> TRUE]
    /\ applied' = Applied("Compile", <<>>, Compile(subject.filter).err)
    /\ PureFrame

MatchesCall(namespace, name) ==
    /\ applied' = Applied("Matches", <<namespace, name>>, Matches(subject.filter, namespace, name))
    /\ UNCHANGED subject
    /\ PureFrame

InitResourceFilter ==
    /\ InitPure
    /\ subject \in [filter : ParsedFilters, compiled : {FALSE}]

NextResourceFilter ==
    \/ CompileCall
    \/ \E namespace \in FilterNamespaces, name \in FilterNames : MatchesCall(namespace, name)

SpecResourceFilter == InitResourceFilter /\ [][NextResourceFilter]_vars

(***************************************************************************)
(* SpecStart: the monitor starts one controller from the options the       *)
(* command line parsed, then serves reconcile requests for the first key.  *)
(***************************************************************************)
\* ControllerLogConfig has the fields Detailed and EventFilters: the resource
\* filter the command line parsed is not among what start hands on
ControllerLogConfig(options) ==
    [Detailed |-> options.Detailed, EventFilters |-> options.EventFilters]

\* the struct literal start registers: ResourceFilter is left at its zero value
MonitorReconciler(kind, logging) ==
    [ kind |-> kind, DetailedLogs |-> logging.Detailed, EventFilters |-> logging.EventFilters,
      ResourceFilter |-> NilFilter ]

\* SetupWithManager makes the cache and builds the controller; it returns the
\* error of the builder only
SetupWithManager(r) == [cache |-> NewObjectCache, err |-> NoError]

StartOptions ==
    [ kind : Kinds, Detailed : BOOLEAN, EventFilters : {NoFilters},
      ResourceFilter : ParsedFilters ]

\* start: register the enabled controller and start the manager
start ==
    /\ ~subject.registered
    /\ LET r == MonitorReconciler(subject.options.kind, ControllerLogConfig(subject.options))
           setup == SetupWithManager(r)
       IN /\ cfg' = r
          /\ cache' = setup.cache
          /\ subject' = [subject EXCEPT !.registered = setup.err = NoError]
          /\ applied' = Applied("start", <<>>, setup.err)
    /\ UNCHANGED <<api, stats, last, twin, seen, heap, held, now, lastSummaryTime, history, mu, work,
                   printer>>

\* the manager dispatches requests to a registered controller only
Dispatch ==
    /\ subject.registered
    /\ \/ Bundle(K1)
       \/ BundleDeployment(K1)
       \/ Cluster(K1)
       \/ GitRepo(K1)
       \/ HelmApp(K1)

InitStart ==
    /\ subject \in [options : StartOptions, registered : {FALSE}]
    /\ cfg = MonitorReconciler(subject.options.kind, ControllerLogConfig(subject.options))
    /\ api \in { [k \in Keys |-> IF k = K1 THEN new ELSE NotFound] : new \in {LogSeed, NotFound} }
    /\ cache = NewObjectCache
    /\ stats = NewStatsTracker
    /\ last = Started
    /\ twin = TwinOf(cache, stats)
    /\ seen = [k \in Keys |-> "nothing"]
    /\ ComponentInit
    /\ applied = NoCall

NextStart ==
    \/ start
    \/ Dispatch

SpecStart == InitStart /\ [][NextStart]_vars

(***************************************************************************)
(* SpecQuery: BundlesForCluster (bundle_query.go) on a cluster and the     *)
(* bundles, namespace mappings, namespaces and cluster groups the API      *)
(* server holds.  Labels are sets of <<key, value>> pairs.  The matcher     *)
(* package is not among the sources: a bundle carries one target, which is *)
(* a cluster name, a cluster selector, a cluster group name, a cluster     *)
(* group selector, nothing, or a selector that does not parse.             *)
(***************************************************************************)
\* metav1.LabelSelector values: absent, unparseable, or one required label
NilSelector == [sel |-> "nil"]
InvalidSelector == [sel |-> "invalid"]
LabelSelector(key, value) == [sel |-> "label", key |-> key, value |-> value]

\* metav1.LabelSelectorAsSelector returns an error
SelectorError(selector) == selector = InvalidSelector

\* labels.Selector.Matches; the selector of a nil LabelSelector matches nothing
SelectorMatches(selector, labels) ==
    /\ selector \notin {NilSelector, InvalidSelector}
    /\ <<selector.key, selector.value>> \in labels

NoTarget == [by |-> "none"]
InvalidTarget == [by |-> "ClusterSelector", selector |-> InvalidSelector]
ByClusterName(name) == [by |-> "ClusterName", name |-> name]
ByClusterSelector(key, value) == [by |-> "ClusterSelector", selector |-> LabelSelector(key, value)]
ByClusterGroup(name) == [by |-> "ClusterGroup", name |-> name]
ByClusterGroupSelector(key, value) ==
    [by |-> "ClusterGroupSelector", selector |-> LabelSelector(key, value)]

\* matcher.New(bundle) returns an error when a selector of a target does not parse
MatcherNewError(bundle) ==
    /\ bundle.target.by \in {"ClusterSelector", "ClusterGroupSelector"}
    /\ SelectorError(bundle.target.selector)

\* bm.Match(clusterName, clusterGroups, clusterLabels) /= nil
Match(bundle, clusterName, clusterGroups, clusterLabels) ==
    CASE bundle.target.by = "ClusterName" -> bundle.target.name = clusterName
      [] bundle.target.by = "ClusterSelector" -> SelectorMatches(bundle.target.selector, clusterLabels)
      [] bundle.target.by = "ClusterGroup" -> bundle.target.name \in DOMAIN clusterGroups
      [] bundle.target.by = "ClusterGroupSelector" ->
            \E g \in DOMAIN clusterGroups : SelectorMatches(bundle.target.selector, clusterGroups[g])
      [] OTHER -> FALSE

AgentAnnotation == <<"objectset.rio.cattle.io/id", "fleet-manage-agent">>

\* the string order of the bundle keys the model uses
SortedBundleKeys ==
    << "fleet-default/app", "fleet-default/fleet-agent-c1", "fleet-default/fleet-agent-c2",
       "other/shared" >>

KeyRank(key) == CHOOSE i \in DOMAIN SortedBundleKeys : SortedBundleKeys[i] = key

\* bundle_query.go:192-196
BundleKey(bundle) == bundle.Namespace \o "/" \o bundle.Name

\* variant: the set takes no bundle
insertSingleNothing(set, bundle) == set

insertSingle(set, bundle) ==
    [k \in DOMAIN set \cup {BundleKey(bundle)} |-> IF k = BundleKey(bundle) THEN bundle ELSE set[k]]

RECURSIVE insertAll(_, _)
insertAll(set, list) ==
    IF list = <<>> THEN set ELSE insertAll(insertSingle(set, Head(list)), Tail(list))

\* bundle_query.go:183-190
insert(set, listed) ==
    IF listed.err /= NoError THEN [set |-> set, err |-> listed.err]
    ELSE [set |-> insertAll(set, listed.items), err |-> NoError]

\* sets.List: the keys in ascending order
RECURSIVE SortedList(_)
RECURSIVE SortedListDescending(_)

\* variant: the keys in descending order
SortedListDescending(keys) ==
    IF keys = {} THEN <<>>
    ELSE LET most == CHOOSE k \in keys : \A other \in keys : KeyRank(k) >= KeyRank(other)
         IN <<most>> \o SortedListDescending(keys \ {most})

SortedList(keys) ==
    IF keys = {} THEN <<>>
    ELSE LET least == CHOOSE k \in keys : \A other \in keys : KeyRank(k) <= KeyRank(other)
         IN <<least>> \o SortedList(keys \ {least})

\* bundle_query.go:172-179
bundles(set) == [i \in 1..Cardinality(DOMAIN set) |-> set[SortedList(DOMAIN set)[i]]]

newBundleSet == [k \in {} |-> NoTarget]

ListError(call) == [list |-> call]

\* client.List: the items of the listing that pass, in the order of the listing
List(world, call, selected) ==
    IF world.fails = call THEN [items |-> <<>>, err |-> ListError(call)]
    ELSE [items |-> selected, err |-> NoError]

\* bundle_query.go:207-230: NoError with a mapping, or the selector error
newBundleMapping(mapping) ==
    IF mapping.BundleSelector = NilSelector \/ mapping.NamespaceSelector = NilSelector
    THEN [ mapping |-> [namespace |-> mapping.Namespace, noMatch |-> TRUE,
                        bundleSelector |-> NilSelector, namespaceSelector |-> NilSelector],
           err |-> NoError ]
    ELSE IF SelectorError(mapping.BundleSelector) \/ SelectorError(mapping.NamespaceSelector)
    THEN [ mapping |-> [none |-> TRUE], err |-> InvalidSelector ]
    ELSE [ mapping |-> [namespace |-> mapping.Namespace, noMatch |-> FALSE,
                        bundleSelector |-> mapping.BundleSelector,
                        namespaceSelector |-> mapping.NamespaceSelector],
           err |-> NoError ]

\* variant: Bundles lists whether or not the mapping can match
MappingBundlesListed(world, b) ==
    LET keep(bundle) == /\ bundle.Namespace = b.namespace
                        /\ SelectorMatches(b.bundleSelector, bundle.Labels)
    IN List(world, "mappingBundles", SelectSeq(world.bundles, keep))

\* bundle_query.go:232-244
MappingBundles(world, b) ==
    IF b.noMatch THEN [items |-> <<>>, err |-> NoError]
    ELSE LET keep(bundle) == /\ bundle.Namespace = b.namespace
                             /\ SelectorMatches(b.bundleSelector, bundle.Labels)
         IN List(world, "mappingBundles", SelectSeq(world.bundles, keep))

\* variant: a mapping with both selectors applies to every namespace
MatchesNamespaceAny(world, b, namespace) == ~b.noMatch

\* bundle_query.go:246-257
MatchesNamespace(world, b, namespace) ==
    IF b.noMatch THEN FALSE
    ELSE IF namespace \notin DOMAIN world.namespaces THEN FALSE
    ELSE SelectorMatches(b.namespaceSelector, world.namespaces[namespace])

\* bundle_query.go:80-89
RECURSIVE insertClusterNamespace(_, _, _)

\* variant: every bundle of the cluster's namespace is in scope
insertClusterNamespaceAll(set, list, cluster) == insertAll(set, list)

insertClusterNamespace(set, list, cluster) ==
    IF list = <<>> THEN set
    ELSE LET b == Head(list)
             next == IF AgentAnnotation \in b.Annotations
                     THEN IF b.Name = "fleet-agent-" \o cluster.Name
                          THEN insertSingle(set, b) ELSE set
                     ELSE insertSingle(set, b)
         IN insertClusterNamespace(next, Tail(list), cluster)

\* bundle_query.go:99-112
RECURSIVE insertMappingsAborting(_, _, _, _)
RECURSIVE insertMappings(_, _, _, _)

\* variant: a mapping whose selector does not parse ends the query with the error
insertMappingsAborting(world, set, mappings, cluster) ==
    IF mappings = <<>> THEN [set |-> set, err |-> NoError]
    ELSE LET made == newBundleMapping(Head(mappings))
         IN IF made.err /= NoError
            THEN [set |-> set, err |-> made.err]
            ELSE IF ~MatchesNamespace(world, made.mapping, cluster.Namespace)
            THEN insertMappingsAborting(world, set, Tail(mappings), cluster)
            ELSE LET inserted == insert(set, MappingBundles(world, made.mapping))
                 IN IF inserted.err /= NoError THEN inserted
                    ELSE insertMappingsAborting(world, inserted.set, Tail(mappings), cluster)

insertMappings(world, set, mappings, cluster) ==
    IF mappings = <<>> THEN [set |-> set, err |-> NoError]
    ELSE LET made == newBundleMapping(Head(mappings))
         IN IF made.err /= NoError
            THEN insertMappings(world, set, Tail(mappings), cluster)
            ELSE IF ~MatchesNamespace(world, made.mapping, cluster.Namespace)
            THEN insertMappings(world, set, Tail(mappings), cluster)
            ELSE LET inserted == insert(set, MappingBundles(world, made.mapping))
                 IN IF inserted.err /= NoError THEN inserted
                    ELSE insertMappings(world, inserted.set, Tail(mappings), cluster)

\* bundle_query.go:72-117
getBundlesInScopeForCluster(world, cluster) ==
    LET inNamespace(b) == b.Namespace = cluster.Namespace
        listed == List(world, "bundles", SelectSeq(world.bundles, inNamespace))
    IN IF listed.err /= NoError THEN [bundles |-> <<>>, err |-> listed.err]
       ELSE LET mappings == List(world, "mappings", world.mappings)
            IN IF mappings.err /= NoError THEN [bundles |-> <<>>, err |-> mappings.err]
               ELSE LET mapped == insertMappings(world,
                                      insertClusterNamespace(newBundleSet, listed.items, cluster),
                                      mappings.items, cluster)
                    IN IF mapped.err /= NoError THEN [bundles |-> <<>>, err |-> mapped.err]
                       ELSE [bundles |-> bundles(mapped.set), err |-> NoError]

\* the API server as it answers once the loop has listed the cluster groups
\* made times: a failing listing of cluster groups fails after world.after
\* listings that succeeded
After(world, made) ==
    IF world.fails = "clusterGroups" /\ made < world.after
    THEN [world EXCEPT !.fails = "none"]
    ELSE world

\* variant: a failed listing of cluster groups counts as no cluster group
clusterGroupsForClusterLenient(world, cluster) == [items |-> <<>>, err |-> NoError]

\* bundle_query.go:121-146
clusterGroupsForCluster(world, cluster) ==
    LET inNamespace(cg) == cg.Namespace = cluster.Namespace
        listed == List(world, "clusterGroups", SelectSeq(world.clusterGroups, inNamespace))
        member(cg) == /\ cg.Selector /= NilSelector
                      /\ ~SelectorError(cg.Selector)
                      /\ SelectorMatches(cg.Selector, cluster.Labels)
    IN IF listed.err /= NoError THEN [items |-> <<>>, err |-> listed.err]
       ELSE [items |-> SelectSeq(listed.items, member), err |-> NoError]

\* variant: the map holds the names of the groups without their labels
clusterGroupsToLabelMapBare(cgs) == [name \in {cgs[i].Name : i \in DOMAIN cgs} |-> {}]

\* bundle_query.go:150-156
clusterGroupsToLabelMap(cgs) ==
    [name \in {cgs[i].Name : i \in DOMAIN cgs} |->
        LET i == CHOOSE j \in DOMAIN cgs :
                    cgs[j].Name = name /\ \A later \in DOMAIN cgs : cgs[later].Name = name => later <= j
        IN cgs[i].Labels]

QueryResult(refresh, cleanup, ignored, err) ==
    [bundlesToRefresh |-> refresh, bundlesToCleanup |-> cleanup, ignored |-> ignored, err |-> err]

RECURSIVE classifyBadAsCleanup(_, _, _, _, _, _)
RECURSIVE classify(_, _, _, _, _, _)

\* variant: a bundle whose matcher cannot be built is cleaned up
classifyBadAsCleanup(world, cluster, list, refresh, cleanup, ignored) ==
    IF list = <<>> THEN QueryResult(refresh, cleanup, ignored, NoError)
    ELSE LET bundle == Head(list)
         IN IF MatcherNewError(bundle)
            THEN classifyBadAsCleanup(world, cluster, Tail(list), refresh, Append(cleanup, bundle), ignored)
            ELSE LET cgs == clusterGroupsForCluster(After(world, Len(refresh) + Len(cleanup)), cluster)
                 IN IF cgs.err /= NoError THEN QueryResult(<<>>, <<>>, ignored, cgs.err)
                    ELSE IF Match(bundle, cluster.Name, clusterGroupsToLabelMap(cgs.items), cluster.Labels)
                    THEN classifyBadAsCleanup(world, cluster, Tail(list), Append(refresh, bundle), cleanup, ignored)
                    ELSE classifyBadAsCleanup(world, cluster, Tail(list), refresh, Append(cleanup, bundle), ignored)

\* bundle_query.go:47-65: the loop over the bundles in scope
classify(world, cluster, list, refresh, cleanup, ignored) ==
    IF list = <<>> THEN QueryResult(refresh, cleanup, ignored, NoError)
    ELSE LET bundle == Head(list)
         IN IF MatcherNewError(bundle)
            THEN classify(world, cluster, Tail(list), refresh, cleanup, Append(ignored, bundle))
            ELSE LET cgs == clusterGroupsForCluster(After(world, Len(refresh) + Len(cleanup)), cluster)
                 IN IF cgs.err /= NoError THEN QueryResult(<<>>, <<>>, ignored, cgs.err)
                    ELSE IF Match(bundle, cluster.Name, clusterGroupsToLabelMap(cgs.items), cluster.Labels)
                    THEN classify(world, cluster, Tail(list), Append(refresh, bundle), cleanup, ignored)
                    ELSE classify(world, cluster, Tail(list), refresh, Append(cleanup, bundle), ignored)

\* bundle_query.go:40-68
BundlesForCluster(world, cluster) ==
    LET scope == getBundlesInScopeForCluster(world, cluster)
    IN IF scope.err /= NoError THEN QueryResult(<<>>, <<>>, <<>>, scope.err)
       ELSE classify(world, cluster, scope.bundles, <<>>, <<>>, <<>>)

\* the objects the API server may hold
Absent == [absent |-> TRUE]

BundleObject(namespace, name, annotations, labels, target) ==
    [ Namespace |-> namespace, Name |-> name, Annotations |-> annotations, Labels |-> labels,
      target |-> target ]

AppBundles ==
    { BundleObject("fleet-default", "app", {}, {<<"team", "a">>}, t) :
        t \in { NoTarget, InvalidTarget, ByClusterName("c1"), ByClusterName("c2"),
                ByClusterSelector("env", "prod"), ByClusterGroup("g1") } }

\* the agent bundle of the cluster and the agent bundle of another cluster
AgentBundles(cluster) ==
    { BundleObject("fleet-default", "fleet-agent-" \o cluster, {AgentAnnotation},
                   {<<"team", "a">>}, ByClusterName("c1")) }

SharedBundles ==
    { BundleObject("other", "shared", {}, {<<"team", "a">>}, t) :
        t \in { InvalidTarget, ByClusterGroupSelector("tier", "gold") } }

Present(object) == IF object = Absent THEN <<>> ELSE <<object>>

Reverse(list) == [i \in DOMAIN list |-> list[Len(list) + 1 - i]]

\* the bundles in the two orders a listing may have
BundleListings ==
    { IF ascending THEN Present(a) \o Present(b) \o Present(c) \o Present(d)
      ELSE Reverse(Present(a) \o Present(b) \o Present(c) \o Present(d)) :
        a \in AppBundles \cup {Absent}, b \in AgentBundles("c1") \cup {Absent},
        c \in AgentBundles("c2") \cup {Absent}, d \in SharedBundles \cup {Absent},
        ascending \in BOOLEAN }

BundleNamespaceMapping(namespace, bundleSelector, namespaceSelector) ==
    [Namespace |-> namespace, BundleSelector |-> bundleSelector, NamespaceSelector |-> namespaceSelector]

MappingListings ==
    { <<>>,
      <<BundleNamespaceMapping("other", LabelSelector("team", "a"), LabelSelector("region", "eu"))>>,
      <<BundleNamespaceMapping("other", LabelSelector("team", "a"), LabelSelector("region", "us"))>>,
      <<BundleNamespaceMapping("other", NilSelector, LabelSelector("region", "eu"))>>,
      <<BundleNamespaceMapping("other", LabelSelector("team", "a"), NilSelector)>>,
      <<BundleNamespaceMapping("other", InvalidSelector, LabelSelector("region", "eu"))>>,
      << BundleNamespaceMapping("other", LabelSelector("team", "a"), InvalidSelector),
         BundleNamespaceMapping("other", LabelSelector("team", "a"), LabelSelector("region", "eu")) >>,
      <<BundleNamespaceMapping("fleet-default", LabelSelector("team", "a"), LabelSelector("region", "eu"))>>,
      << BundleNamespaceMapping("fleet-default", LabelSelector("team", "a"), LabelSelector("region", "eu")),
         BundleNamespaceMapping("other", LabelSelector("team", "a"), LabelSelector("region", "eu")) >>,
      << BundleNamespaceMapping("other", LabelSelector("team", "a"), LabelSelector("region", "eu")),
         BundleNamespaceMapping("fleet-default", LabelSelector("team", "a"), LabelSelector("region", "eu")) >> }

ClusterGroup(selector) ==
    [Namespace |-> "fleet-default", Name |-> "g1", Labels |-> {<<"tier", "gold">>}, Selector |-> selector]

\* a group of the cluster's namespace listed after one that does not parse,
\* and a group of another namespace whose selector selects the cluster
ClusterGroupListings ==
    { <<>>, <<ClusterGroup(NilSelector)>>, <<ClusterGroup(InvalidSelector)>>,
      <<ClusterGroup(LabelSelector("env", "prod"))>>,
      << [ClusterGroup(InvalidSelector) EXCEPT !.Name = "g0"],
         ClusterGroup(LabelSelector("env", "prod")) >>,
      << [ClusterGroup(LabelSelector("env", "prod")) EXCEPT !.Namespace = "other"] >> }

ListCalls == {"bundles", "mappings", "mappingBundles", "clusterGroups"}

Worlds ==
    { w \in [ bundles : BundleListings, mappings : MappingListings,
              namespaces : { [n \in {"fleet-default"} |-> {<<"region", "eu">>}] },
              clusterGroups : ClusterGroupListings, fails : ListCalls \cup {"none"},
              after : {0, 1} ] :
        w.after = 1 => w.fails = "clusterGroups" }

Clusters ==
    [Namespace : {"fleet-default"}, Name : {"c1"}, Labels : { {}, {<<"env", "prod">>} }]

BundlesForClusterCall ==
    /\ applied = NoCall
    /\ applied' = Applied("BundlesForCluster", <<>>, BundlesForCluster(subject.world, subject.cluster))
    /\ UNCHANGED subject
    /\ PureFrame

\* newBundleMapping on a mapping the API server holds, then MatchesNamespace
\* and Bundles on the result
BundleMappingCall(i, namespace) ==
    /\ applied = NoCall
    /\ i \in DOMAIN subject.world.mappings
    /\ LET made == newBundleMapping(subject.world.mappings[i])
       IN applied' = Applied("newBundleMapping", <<subject.world.mappings[i], namespace>>,
                         IF made.err /= NoError
                         THEN [err |-> made.err]
                         ELSE [ err |-> NoError,
                                MatchesNamespace |-> MatchesNamespace(subject.world, made.mapping, namespace),
                                Bundles |-> MappingBundles(subject.world, made.mapping) ])
    /\ UNCHANGED subject
    /\ PureFrame

\* bundle_query.go:55-60: the cluster groups of the cluster and the map of
\* them that the loop hands to the matcher
ClusterGroupsCall ==
    /\ applied = NoCall
    /\ LET cgs == clusterGroupsForCluster(subject.world, subject.cluster)
       IN applied' = Applied("clusterGroupsForCluster", <<>>,
                         IF cgs.err /= NoError
                         THEN [err |-> cgs.err]
                         ELSE [err |-> NoError, clusterGroups |-> clusterGroupsToLabelMap(cgs.items)])
    /\ UNCHANGED subject
    /\ PureFrame

InitQuery ==
    /\ InitPure
    /\ subject \in [world : Worlds, cluster : Clusters]

NextQuery ==
    \/ BundlesForClusterCall
    \/ ClusterGroupsCall
    \/ \E i \in DOMAIN subject.world.mappings, namespace \in {"fleet-default", "other"} :
          BundleMappingCall(i, namespace)

SpecQuery == InitQuery /\ [][NextQuery]_vars

(***************************************************************************)
(* SpecPrinter: the summary printer goroutine (operator.go:206-237) beside *)
(* reconcilers that record events.  The ticker may fire whenever its       *)
(* channel is empty; the context may be cancelled at any time.  twin is a  *)
(* tracker that is given every recorded event and is never reset, with the *)
(* number of events the summary lines of reset mode have reported so far.  *)
(***************************************************************************)
PrinterFrame == UNCHANGED <<api, cache, cfg, seen, heap, held, mu, work, subject, applied>>

\* operator.go:207-210: the goroutine is at the select, with a fresh ticker
PrinterStarted ==
    [ pc |-> "select", cancelled |-> FALSE, tick |-> FALSE, summary |-> NoSummary,
      emitted |-> NoSummary, trace |-> <<>> ]

\* the caller cancels the context
Cancel ==
    /\ printer.pc /= "none"
    /\ ~printer.cancelled
    /\ printer' = [printer EXCEPT !.cancelled = TRUE]
    /\ last' = StatsStep("Cancel", NoSummary)
    /\ UNCHANGED <<stats, now, lastSummaryTime, history, twin>>
    /\ PrinterFrame

\* the ticker sends on its channel of capacity one; a stopped ticker sends nothing
TickerFire ==
    /\ printer.pc \notin {"none", "returned"}
    /\ ~printer.tick
    /\ printer' = [printer EXCEPT !.tick = TRUE]
    /\ last' = StatsStep("Ticker", NoSummary)
    /\ UNCHANGED <<stats, now, lastSummaryTime, history, twin>>
    /\ PrinterFrame

\* a second passes
Elapse ==
    /\ now < MaxTime
    /\ now' = now + 1
    /\ last' = StatsStep("Tick", NoSummary)
    /\ UNCHANGED <<stats, lastSummaryTime, history, printer, twin>>
    /\ PrinterFrame

\* a reconciler records an event
RecordedByReconciler(key) ==
    /\ TotalEvents(twin.stats) < MaxEvents
    /\ stats' = RecordEvent(stats, key.ResourceType, key.Namespace, key.Name, EventTypeCreate)
    /\ twin' = [twin EXCEPT !.stats = RecordEvent(@, key.ResourceType, key.Namespace, key.Name,
                                                  EventTypeCreate)]
    /\ history' = [history EXCEPT !.calls[key][EventTypeCreate] = @ + 1]
    /\ last' = StatsStep("RecordEvent", NoSummary)
    /\ UNCHANGED <<now, lastSummaryTime, printer>>
    /\ PrinterFrame

\* operator.go:215-216: case <-ctx.Done(): return (and the deferred ticker.Stop)
Return ==
    /\ printer.pc = "select"
    /\ printer.cancelled
    /\ printer' = [printer EXCEPT !.pc = "returned"]
    /\ last' = StatsStep("Return", NoSummary)
    /\ UNCHANGED <<stats, now, lastSummaryTime, history, twin>>
    /\ PrinterFrame

\* operator.go:217: case <-ticker.C
Receive ==
    /\ printer.pc = "select"
    /\ printer.tick
    /\ printer' = [printer EXCEPT !.pc = "GetSummary", !.tick = FALSE, !.trace = <<>>]
    /\ last' = StatsStep("Receive", NoSummary)
    /\ UNCHANGED <<stats, now, lastSummaryTime, history, twin>>
    /\ PrinterFrame

\* operator.go:218
TakeSummary ==
    /\ printer.pc = "GetSummary"
    /\ \E w \in Visits(stats) :
          /\ printer' = [printer EXCEPT !.pc = "Info",
                                        !.summary = GetSummary(stats, lastSummaryTime, now, w),
                                        !.trace = Append(@, "GetSummary")]
          /\ last' = StatsStep("GetSummary", GetSummary(stats, lastSummaryTime, now, w))
    /\ UNCHANGED <<stats, now, lastSummaryTime, history, twin>>
    /\ PrinterFrame

\* operator.go:221-228: ToJSON, then the summary line
EmitSummary ==
    /\ printer.pc = "Info"
    /\ printer' = [printer EXCEPT !.pc = "After", !.emitted = printer.summary,
                                  !.summary = NoSummary, !.trace = Append(@, "Info")]
    /\ twin' = [twin EXCEPT !.printed = IF subject.reset
                                        THEN @ + printer.summary.Totals.TotalEvents
                                        ELSE @]
    /\ last' = StatsStep("Info", printer.summary)
    /\ UNCHANGED <<stats, now, lastSummaryTime, history>>
    /\ PrinterFrame

\* variant: the tick ends with the summary line
AfterSummaryNothing ==
    /\ printer.pc = "After"
    /\ printer' = [printer EXCEPT !.pc = "select"]
    /\ last' = StatsStep("Info", NoSummary)
    /\ UNCHANGED <<stats, now, lastSummaryTime, history, twin>>
    /\ PrinterFrame

\* operator.go:230-235
AfterSummary ==
    /\ printer.pc = "After"
    /\ IF subject.reset
       THEN /\ stats' = Reset(lastSummaryTime, now).stats
            /\ lastSummaryTime' = Reset(lastSummaryTime, now).lastSummaryTime
            /\ history' = [calls |-> NoCalls, anchoredBy |-> "Reset", anchoredAt |-> now]
            /\ last' = StatsStep("Reset", NoSummary)
            /\ printer' = [printer EXCEPT !.pc = "select", !.trace = Append(@, "Reset")]
       ELSE /\ lastSummaryTime' = UpdateLastSummaryTime(now)
            /\ history' = [history EXCEPT !.anchoredBy = "UpdateLastSummaryTime",
                                          !.anchoredAt = now]
            /\ last' = StatsStep("UpdateLastSummaryTime", NoSummary)
            /\ printer' = [printer EXCEPT !.pc = "select",
                                          !.trace = Append(@, "UpdateLastSummaryTime")]
            /\ UNCHANGED stats
    /\ UNCHANGED <<now, twin>>
    /\ PrinterFrame

InitPrinter ==
    /\ api = [k \in Keys |-> NotFound]
    /\ cache = NewObjectCache
    /\ stats = NewStatsTracker
    /\ cfg = [ kind |-> "Bundle", DetailedLogs |-> FALSE, EventFilters |-> NoFilters,
               ResourceFilter |-> NilFilter ]
    /\ last = StatsStep("NewStatsTracker", NoSummary)
    /\ twin = [stats |-> NewStatsTracker, printed |-> 0]
    /\ seen = [k \in Keys |-> "nothing"]
    /\ TrackerInit
    /\ subject \in [interval : {1}, reset : BOOLEAN]
    /\ applied = NoCall
    /\ printer = PrinterStarted

NextPrinter ==
    \/ Cancel
    \/ TickerFire
    \/ Elapse
    \/ \E key \in {ResourceKey("Bundle", "fleet-default", "b1")} : RecordedByReconciler(key)
    \/ Return
    \/ Receive
    \/ TakeSummary
    \/ EmitSummary
    \/ AfterSummary

SpecPrinter == InitPrinter /\ [][NextPrinter]_vars

\* the goroutine is scheduled, and a select with the cancelled context among
\* its ready cases does not pass it over forever
SpecPrinterLive ==
    /\ SpecPrinter
    /\ WF_vars(TakeSummary)
    /\ WF_vars(EmitSummary)
    /\ WF_vars(AfterSummary)
    /\ SF_vars(Return)

(***************************************************************************)
(* SpecConcurrent: the Cluster monitor with MaxConcurrentReconciles        *)
(* workers (cluster_monitor.go:88).  A reconcile is the sequence of its    *)
(* calls on the API server, the cache and the tracker, each of them atomic *)
(* under the lock of its component; the work queue never hands a key to    *)
(* two workers at once.  twin holds, per key, the cache and the tracker of *)
(* a run that reconciles this key only, fed the same fetches.              *)
(***************************************************************************)
ConcurrentFrame == UNCHANGED <<cfg, seen, heap, held, now, lastSummaryTime, history, mu, pure>>

\* a worker waiting for a request
Waiting == [pc |-> "idle", key |-> NoKey, fetched |-> NoFetch, old |-> NoEntry, n |-> 0]

InFlight(key) == \E w \in Workers : work[w].pc /= "idle" /\ work[w].key = key

WorkerStep(name, w) == [op |-> name, key |-> work[w].key, worker |-> w]

\* the reconcile of the worker returns; the run of its key alone makes the
\* same reconcile in one piece
ReconcileReturns(w) ==
    LET key == work[w].key
        solo == ClusterReconcile(Reconciler(cfg, twin[key].cache, twin[key].stats),
                                 key, work[w].fetched)
    IN /\ work' = [work EXCEPT ![w] = Waiting]
       /\ twin' = [twin EXCEPT ![key] = [cache |-> solo.cache, stats |-> solo.stats]]

\* cluster_monitor.go:100-101: the queue hands a key to the first worker that
\* waits (the workers are interchangeable), r.Get
Get(w, key) ==
    /\ work[w].pc = "idle"
    /\ \A v \in Workers : v < w => work[v].pc /= "idle"
    /\ ~InFlight(key)
    /\ TotalEvents(stats) < MaxEvents
    /\ \E fetched \in Fetches(key) :
          work' = [work EXCEPT ![w] = [Waiting EXCEPT !.pc = "got", !.key = key,
                                                       !.fetched = fetched]]
    /\ last' = [op |-> "Get", key |-> key, worker |-> w]
    /\ UNCHANGED <<api, cache, stats, twin>>
    /\ ConcurrentFrame

\* cluster_monitor.go:102-108, an error other than not-found
GetFailed(w) ==
    /\ work[w].pc = "got"
    /\ work[w].fetched = FetchError
    /\ ReconcileReturns(w)
    /\ last' = WorkerStep("GetFailed", w)
    /\ UNCHANGED <<api, cache, stats>>
    /\ ConcurrentFrame

\* cluster_monitor.go:104 and 112: logNotFound, logDeletion
LogGone(w) ==
    /\ work[w].pc = "got"
    /\ work[w].fetched /= FetchError
    /\ IF work[w].fetched = NotFound THEN TRUE ELSE work[w].fetched.deleting
    /\ stats' = IF work[w].fetched = NotFound
                THEN logNotFound([stats |-> stats, logs |-> <<>>], cfg.DetailedLogs,
                                 cfg.EventFilters, "Cluster",
                                 work[w].key.namespace, work[w].key.name).stats
                ELSE logDeletion([stats |-> stats, logs |-> <<>>], cfg.DetailedLogs,
                                 cfg.EventFilters, "Cluster",
                                 work[w].key.namespace, work[w].key.name).stats
    /\ work' = [work EXCEPT ![w].pc = "delete"]
    /\ last' = WorkerStep("LogGone", w)
    /\ UNCHANGED <<api, cache, twin>>
    /\ ConcurrentFrame

\* cluster_monitor.go:105 and 113: r.cache.Delete
Delete(w) ==
    /\ work[w].pc = "delete"
    /\ cache' = CacheDelete(cache, work[w].key)
    /\ ReconcileReturns(w)
    /\ last' = WorkerStep("Delete", w)
    /\ UNCHANGED <<api, stats>>
    /\ ConcurrentFrame

\* cluster_monitor.go:118: r.cache.Get
Lookup(w) ==
    /\ work[w].pc = "got"
    /\ work[w].fetched \notin {FetchError, NotFound}
    /\ ~work[w].fetched.deleting
    /\ work' = [work EXCEPT ![w].old = CacheGet(cache, work[w].key).obj,
                            ![w].pc = IF CacheGet(cache, work[w].key).exists
                                      THEN "diff" ELSE "create",
                            ![w].n = 1]
    /\ last' = WorkerStep("Lookup", w)
    /\ UNCHANGED <<api, cache, stats, twin>>
    /\ ConcurrentFrame

\* cluster_monitor.go:120: logCreate
LogCreate(w) ==
    /\ work[w].pc = "create"
    /\ stats' = logCreate([stats |-> stats, logs |-> <<>>], cfg.DetailedLogs, cfg.EventFilters,
                          "Cluster", work[w].key.namespace, work[w].key.name).stats
    /\ work' = [work EXCEPT ![w].pc = "set"]
    /\ last' = WorkerStep("LogCreate", w)
    /\ UNCHANGED <<api, cache, twin>>
    /\ ConcurrentFrame

\* cluster_monitor.go:128-132: the n-th of the five change detections
LogChanges(sink, n, namespace, name, old, fetched) ==
    IF n = 1
    THEN logSpecChange(sink, cfg.DetailedLogs, cfg.EventFilters, "Cluster", namespace, name,
                       old.spec, fetched.spec, old.generation, fetched.generation)
    ELSE IF n = 2
    THEN logStatusChange(sink, cfg.DetailedLogs, cfg.EventFilters, "Cluster", namespace, name,
                         old.status, fetched.status)
    ELSE IF n = 3
    THEN logResourceVersionChangeWithMetadata(sink, cfg.DetailedLogs, cfg.EventFilters,
                                              "Cluster", namespace, name, old, fetched)
    ELSE IF n = 4
    THEN logAnnotationChange(sink, cfg.DetailedLogs, cfg.EventFilters, "Cluster", namespace,
                             name, old.annotations, fetched.annotations)
    ELSE logLabelChange(sink, cfg.DetailedLogs, cfg.EventFilters, "Cluster", namespace, name,
                        old.labels, fetched.labels)

LogChange(w) ==
    /\ work[w].pc = "diff"
    /\ stats' = LogChanges([stats |-> stats, logs |-> <<>>], work[w].n, work[w].key.namespace,
                           work[w].key.name, work[w].old, work[w].fetched).stats
    /\ work' = [work EXCEPT ![w].n = @ + 1, ![w].pc = IF work[w].n = 5 THEN "set" ELSE "diff"]
    /\ last' = [WorkerStep("LogChange", w) EXCEPT !.op = <<"LogChange", work[w].n>>]
    /\ UNCHANGED <<api, cache, twin>>
    /\ ConcurrentFrame

\* cluster_monitor.go:121 and 135: r.cache.Set(req.NamespacedName, cluster.DeepCopy())
Set(w) ==
    /\ work[w].pc = "set"
    /\ cache' = CacheSet(cache, work[w].key, DeepCopy(work[w].fetched))
    /\ ReconcileReturns(w)
    /\ last' = WorkerStep("Set", w)
    /\ UNCHANGED <<api, stats>>
    /\ ConcurrentFrame

\* another client of the API server creates, updates or deletes a cluster; a
\* write that lands while the key is being reconciled, after its r.Get, is
\* seen by the next reconcile of the key like one that lands right after it
ClusterChange(key) ==
    /\ TotalEvents(stats) < MaxEvents
    /\ ~InFlight(key)
    /\ \E v \in (ServedObjects \cup {NotFound}) \ {api[key]} :
          api' = [api EXCEPT ![key] = v]
    /\ last' = [op |-> "ApiChange", key |-> NoKey, worker |-> 0]
    /\ UNCHANGED <<cache, stats, twin, work>>
    /\ ConcurrentFrame

InitConcurrent ==
    /\ api = [k \in Keys |-> NotFound]
    /\ cache = NewObjectCache
    /\ stats = NewStatsTracker
    /\ cfg = [ kind |-> "Cluster", DetailedLogs |-> FALSE, EventFilters |-> NoFilters,
               ResourceFilter |-> NilFilter ]
    /\ last = [op |-> "Start", key |-> NoKey, worker |-> 0]
    /\ twin = [k \in Keys |-> [cache |-> NewObjectCache, stats |-> NewStatsTracker]]
    /\ seen = [k \in Keys |-> "nothing"]
    /\ heap = [a \in 1..MaxObjects |-> Unallocated]
    /\ held = {}
    /\ now = 0
    /\ lastSummaryTime = 0
    /\ history = [calls |-> NoCalls, anchoredBy |-> "NewStatsTracker", anchoredAt |-> 0]
    /\ mu = RWMutex
    /\ work = [w \in Workers |-> Waiting]
    /\ subject = NoSubject
    /\ applied = NoCall
    /\ printer = NotStarted

NextConcurrent ==
    \/ \E w \in Workers, key \in Keys : Get(w, key)
    \/ \E w \in Workers : GetFailed(w)
    \/ \E w \in Workers : LogGone(w)
    \/ \E w \in Workers : Delete(w)
    \/ \E w \in Workers : Lookup(w)
    \/ \E w \in Workers : LogCreate(w)
    \/ \E w \in Workers : LogChange(w)
    \/ \E w \in Workers : Set(w)
    \/ \E key \in Keys : ClusterChange(key)

SpecConcurrent == InitConcurrent /\ [][NextConcurrent]_vars

(***************************************************************************)
(* SpecSnapshot: the tracker and a Summary it returned, as they lie on the *)
(* Go heap.  s.stats maps a key to a pointer to a ResourceStats; Counts    *)
(* and TriggeredBy are maps, which Go shares by reference.  A cell of the  *)
(* heap holds a ResourceStats (its maps by address) or a map; a cell that  *)
(* nothing refers to is freed.  held is the Summary the caller of          *)
(* GetSummary holds, the one of its most recent call.                      *)
(***************************************************************************)
SnapshotFrame == UNCHANGED <<api, cache, cfg, twin, seen, now, history, mu, work, pure>>

Cells == 1..(3 * MaxObjects)

RECURSIVE Fresh(_, _)
\* the n lowest free addresses
Fresh(h, n) ==
    IF n = 0 THEN <<>>
    ELSE LET a == CHOOSE x \in DOMAIN h :
                     /\ h[x] = Unallocated
                     /\ \A y \in DOMAIN h : h[y] = Unallocated => x <= y
         IN <<a>> \o Fresh([h EXCEPT ![a] = [allocated |-> TRUE]], n - 1)

Room(h, n) == Cardinality({ a \in DOMAIN h : h[a] = Unallocated }) >= n

\* the counters behind a pointer to a ResourceStats
Deref(h, a) ==
    [ Counts |-> h[h[a].Counts].map, TriggeredBy |-> h[h[a].TriggeredBy].map,
      Total |-> h[a].Total ]

\* what the tracker counts, whatever its layout
TrackerValue(s, h) == [k \in DOMAIN s |-> Deref(h, s[k])]

\* the cells a pointer to a ResourceStats reaches
Reach(h, a) == {a, h[a].Counts, h[a].TriggeredBy}

\* the garbage collector frees what neither the tracker nor the held Summary reaches
Collect(h, s, summary) ==
    LET roots == { s[k] : k \in DOMAIN s } \cup
                 (IF summary = NoSummary THEN {}
                  ELSE { summary.Summary[e] : e \in DOMAIN summary.Summary })
        live == UNION { Reach(h, a) : a \in roots }
    IN [a \in DOMAIN h |-> IF a \in live THEN h[a] ELSE Unallocated]

\* stats.go:93-99 and 117-123: &ResourceStats{Counts: make(...), TriggeredBy: make(...)}
NewStatsAt(h, f) ==
    [h EXCEPT ![f[1]] = [Counts |-> f[2], TriggeredBy |-> f[3], Total |-> 0],
              ![f[2]] = [map |-> [e \in EventTypes |-> 0]],
              ![f[3]] = [map |-> [t \in TriggerTypes |-> 0]]]

\* stats.go:88-107 and 110-131: the entry of the key, made if absent, with the
\* counter of one of its maps and its total incremented
Count(h, s, key, field, counter) ==
    LET h1 == IF key \in DOMAIN s THEN h ELSE NewStatsAt(h, Fresh(h, 3))
        s1 == IF key \in DOMAIN s THEN s ELSE s @@ (key :> Fresh(h, 3)[1])
    IN [ heap |-> [h1 EXCEPT ![h1[s1[key]][field]].map[counter] = @ + 1,
                             ![s1[key]].Total = @ + 1],
         stats |-> s1 ]

\* variant: the summary refers to the ResourceStats of the tracker
CopyStatsShared(h, a) == [heap |-> h, addr |-> a]

\* stats.go:162-173: statsCopy, a new ResourceStats with new maps
CopyStats(h, a) ==
    LET f == Fresh(h, 3)
    IN [ heap |-> [h EXCEPT ![f[1]] = [Counts |-> f[2], TriggeredBy |-> f[3],
                                       Total |-> h[a].Total],
                            ![f[2]] = h[h[a].Counts],
                            ![f[3]] = h[h[a].TriggeredBy]],
         addr |-> f[1] ]

RECURSIVE Group(_, _, _, _, _)
\* stats.go:157-176: the loop over s.stats, for the visit order w
Group(h, s, w, entries, grouped) ==
    IF entries = {} THEN [heap |-> h, grouped |-> grouped]
    ELSE LET e == CHOOSE x \in entries : TRUE
             copy == CopyStats(h, s[w[e]])
         IN Group(copy.heap, s, w, entries \ {e}, grouped @@ (e :> copy.addr))

RecordEventShared(key, eventType) ==
    /\ TotalEvents(TrackerValue(stats, heap)) < MaxEvents
    /\ key \notin DOMAIN stats => Room(heap, 3)
    /\ heap' = Count(heap, stats, key, "Counts", eventType).heap
    /\ stats' = Count(heap, stats, key, "Counts", eventType).stats
    /\ last' = StatsStep("RecordEvent", NoSummary)
    /\ UNCHANGED <<held, lastSummaryTime>>
    /\ SnapshotFrame

RecordTriggerShared(key, triggerType) ==
    /\ TotalEvents(TrackerValue(stats, heap)) < MaxEvents
    /\ key \notin DOMAIN stats => Room(heap, 3)
    /\ heap' = Count(heap, stats, key, "TriggeredBy", triggerType).heap
    /\ stats' = Count(heap, stats, key, "TriggeredBy", triggerType).stats
    /\ last' = StatsStep("RecordTrigger", NoSummary)
    /\ UNCHANGED <<held, lastSummaryTime>>
    /\ SnapshotFrame

\* stats.go:191-197: s.stats is a new map
ResetShared ==
    /\ stats' = NewStatsTracker
    /\ lastSummaryTime' = now
    /\ heap' = Collect(heap, NewStatsTracker, held)
    /\ last' = StatsStep("Reset", NoSummary)
    /\ UNCHANGED held
    /\ SnapshotFrame

\* stats.go:146-188
GetSummaryShared ==
    /\ Room(Collect(heap, stats, NoSummary), 3 * Cardinality(SummaryEntries(stats)))
    /\ \E w \in Visits(stats) :
          LET out == Group(Collect(heap, stats, NoSummary), stats, w, SummaryEntries(stats), <<>>)
          IN /\ heap' = out.heap
             /\ held' = [ Timestamp |-> now,
                          IntervalSeconds |-> now - lastSummaryTime,
                          Summary |-> out.grouped,
                          Totals |-> [ TotalResourcesMonitored |-> Cardinality(DOMAIN stats),
                                       TotalEvents |-> TotalEvents(TrackerValue(stats, heap)) ] ]
    /\ last' = StatsStep("GetSummary", NoSummary)
    /\ UNCHANGED <<stats, lastSummaryTime>>
    /\ SnapshotFrame

\* the value a caller overwrites a number with: one no counter reaches
Scribble == MaxEvents + 1

\* the caller of GetSummary writes into the Summary it was returned: a count,
\* a trigger count or the total of an entry, or it deletes an entry
ModifySummary ==
    /\ held /= NoSummary
    /\ \/ \E e \in DOMAIN held.Summary, c \in {EventTypeCreate} :
             /\ heap' = [heap EXCEPT ![heap[held.Summary[e]].Counts].map[c] = Scribble]
             /\ UNCHANGED held
       \/ \E e \in DOMAIN held.Summary, t \in {"Cluster"} :
             /\ heap' = [heap EXCEPT ![heap[held.Summary[e]].TriggeredBy].map[t] = Scribble]
             /\ UNCHANGED held
       \/ \E e \in DOMAIN held.Summary :
             /\ heap' = [heap EXCEPT ![held.Summary[e]].Total = Scribble]
             /\ UNCHANGED held
       \/ \E e \in DOMAIN held.Summary :
             /\ held' = [held EXCEPT !.Summary = [x \in DOMAIN held.Summary \ {e} |-> @[x]]]
             /\ heap' = Collect(heap, stats, held')
    /\ last' = StatsStep("Modify", NoSummary)
    /\ UNCHANGED <<stats, lastSummaryTime>>
    /\ SnapshotFrame

InitSnapshot ==
    /\ api = [k \in Keys |-> NotFound]
    /\ cache = NewObjectCache
    /\ stats = NewStatsTracker
    /\ cfg = [ kind |-> "Bundle", DetailedLogs |-> FALSE, EventFilters |-> NoFilters,
               ResourceFilter |-> NilFilter ]
    /\ last = StatsStep("NewStatsTracker", NoSummary)
    /\ twin = TwinOf(cache, NewStatsTracker)
    /\ seen = [k \in Keys |-> "nothing"]
    /\ heap = [a \in Cells |-> Unallocated]
    /\ held = NoSummary
    /\ now = 0
    /\ lastSummaryTime = 0
    /\ history = [calls |-> NoCalls, anchoredBy |-> "NewStatsTracker", anchoredAt |-> 0]
    /\ mu = RWMutex
    /\ work = [w \in Workers |-> Idle]
    /\ subject = NoSubject
    /\ applied = NoCall
    /\ printer = NotStarted

NextSnapshot ==
    \/ \E key \in WorkerKeys : RecordEventShared(key, EventTypeCreate)
    \/ \E key \in {ResourceKey("Bundle", "", "")} : RecordTriggerShared(key, "Cluster")
    \/ ResetShared
    \/ GetSummaryShared
    \/ ModifySummary

SpecSnapshot == InitSnapshot /\ [][NextSnapshot]_vars

(***************************************************************************)
(* SpecStrings: the tracker called with any namespace and name strings,    *)
(* as RecordEvent and RecordTrigger accept them (the Cluster watch takes   *)
(* them from annotations, whose values are free text).                     *)
(***************************************************************************)
StringsFrame == UNCHANGED <<api, cache, cfg, twin, seen, heap, held, now, lastSummaryTime, history, mu, work, pure>>

Namespaces == {"", "a", "a/b"}
Names == {"c", "b/c", "a/c"}

StringKeys == { ResourceKey("Cluster", namespace, name) : namespace \in Namespaces, name \in Names }

RecordEventOf(key) ==
    /\ TotalEvents(stats) < MaxEvents
    /\ stats' = RecordEvent(stats, key.ResourceType, key.Namespace, key.Name, EventTypeCreate)
    /\ last' = StatsStep("RecordEvent", NoSummary)
    /\ StringsFrame

RecordTriggerOf(key) ==
    /\ TotalEvents(stats) < MaxEvents
    /\ stats' = RecordTrigger(stats, key.ResourceType, key.Namespace, key.Name, "BundleDeployment")
    /\ last' = StatsStep("RecordTrigger", NoSummary)
    /\ StringsFrame

GetSummaryOf ==
    /\ \E w \in Visits(stats) :
          last' = StatsStep("GetSummary", GetSummary(stats, lastSummaryTime, now, w))
    /\ UNCHANGED stats
    /\ StringsFrame

InitStrings == InitStats

NextStrings ==
    \/ \E key \in StringKeys : RecordEventOf(key)
    \/ \E key \in StringKeys : RecordTriggerOf(key)
    \/ GetSummaryOf

SpecStrings == InitStrings /\ [][NextStrings]_vars

(***************************************************************************)
(* SpecInterval: a caller that keeps the Summary of its previous           *)
(* GetSummary call while the clock runs and the interval anchor is moved.  *)
(***************************************************************************)
\* stats.go:146-188; the caller keeps what it is returned
GetSummaryKept ==
    /\ \E w \in Visits(stats) :
          /\ last' = StatsStep("GetSummary", GetSummary(stats, lastSummaryTime, now, w))
          /\ held' = GetSummary(stats, lastSummaryTime, now, w)
    /\ UNCHANGED <<api, cache, stats, cfg, twin, seen, heap, now, lastSummaryTime, history,
                   mu, work, pure>>

InitInterval ==
    /\ api = [k \in Keys |-> NotFound]
    /\ cache = NewObjectCache
    /\ stats = NewStatsTracker
    /\ cfg = [ kind |-> "Bundle", DetailedLogs |-> FALSE, EventFilters |-> NoFilters,
               ResourceFilter |-> NilFilter ]
    /\ last = StatsStep("NewStatsTracker", NoSummary)
    /\ twin = TwinOf(cache, stats)
    /\ seen = [k \in Keys |-> "nothing"]
    /\ heap = [a \in 1..MaxObjects |-> Unallocated]
    /\ held = NoSummary
    /\ now = 0
    /\ lastSummaryTime = 0
    /\ history = [calls |-> NoCalls, anchoredBy |-> "NewStatsTracker", anchoredAt |-> 0]
    /\ mu = RWMutex
    /\ work = [w \in Workers |-> Idle]
    /\ subject = NoSubject
    /\ applied = NoCall
    /\ printer = NotStarted

NextInterval ==
    \/ \E key \in {ResourceKey("Bundle", "fleet-default", "b1")} : RecordEventCall(key, EventTypeCreate)
    \/ GetSummaryKept
    \/ ResetCall
    \/ UpdateLastSummaryTimeCall
    \/ Tick

SpecInterval == InitInterval /\ [][NextInterval]_vars

(***************************************************************************)
(* SpecLoop: one call of BundlesForCluster taken an iteration at a time    *)
(* (bundle_query.go:40-68) while other clients of the API server create,   *)
(* delete and relabel the ClusterGroup g1.  Every iteration lists the      *)
(* cluster groups again (bundle_query.go:55).  The call runs on worker 1;   *)
(* work[1] is its frame.                                                   *)
(***************************************************************************)
LoopFrame ==
    UNCHANGED <<api, cache, stats, cfg, last, twin, seen, heap, held, now, lastSummaryTime,
                history, mu, printer>>

GroupLabelSets == { {<<"tier", "gold">>}, {<<"tier", "silver">>} }

\* the listings of cluster groups the API server may answer with
RacingGroupListings ==
    {<<>>} \cup { <<[ClusterGroup(LabelSelector("env", "prod")) EXCEPT !.Labels = labels]>> :
                    labels \in GroupLabelSets }

\* two bundles in scope of the cluster, each placed by a cluster group
RacingBundleListings ==
    { << BundleObject("fleet-default", "app", {}, {<<"team", "a">>}, first),
         BundleObject("other", "shared", {}, {<<"team", "a">>}, second) >> :
        first \in {ByClusterGroup("g1"), ByClusterName("c1")},
        second \in {ByClusterGroup("g1"), ByClusterGroupSelector("tier", "gold")} }

RacingWorlds ==
    [ bundles : RacingBundleListings,
      mappings : { <<BundleNamespaceMapping("other", LabelSelector("team", "a"),
                                            LabelSelector("region", "eu"))>> },
      namespaces : { [n \in {"fleet-default"} |-> {<<"region", "eu">>}] },
      clusterGroups : RacingGroupListings, fails : {"none"}, after : {0} ]

\* bundle_query.go:40-46: the bundles in scope are fetched once
EnterLoop ==
    /\ work[1] = Idle
    /\ LET scope == getBundlesInScopeForCluster(subject.world, subject.cluster)
       IN work' = [work EXCEPT ![1] = [ pc |-> "loop", scope |-> scope.bundles,
                                         result |-> QueryResult(<<>>, <<>>, <<>>, scope.err) ]]
    /\ UNCHANGED <<subject, applied>>
    /\ LoopFrame

\* bundle_query.go:47-65: one iteration, on the cluster groups listed now
LoopBody ==
    /\ work[1].pc = "loop"
    /\ work[1].result.err = NoError
    /\ work[1].scope /= <<>>
    /\ work' = [work EXCEPT ![1].scope = Tail(@),
                            ![1].result = classify(subject.world, subject.cluster, <<Head(work[1].scope)>>,
                                                   @.bundlesToRefresh, @.bundlesToCleanup, @.ignored)]
    /\ UNCHANGED <<subject, applied>>
    /\ LoopFrame

\* bundle_query.go:44-45, 57-58, 67
LoopReturn ==
    /\ work[1].pc = "loop"
    /\ work[1].result.err /= NoError \/ work[1].scope = <<>>
    /\ work' = [work EXCEPT ![1].pc = "returned"]
    /\ applied' = Applied("BundlesForCluster", <<>>, work[1].result)
    /\ UNCHANGED subject
    /\ LoopFrame

\* another client creates, deletes or relabels the cluster group
ClusterGroupsChange(listing) ==
    /\ work[1].pc /= "returned"
    /\ listing /= subject.world.clusterGroups
    /\ subject' = [subject EXCEPT !.world.clusterGroups = listing]
    /\ UNCHANGED <<work, applied>>
    /\ LoopFrame

InitLoop ==
    /\ InitPure
    /\ subject \in [world : RacingWorlds, cluster : Clusters]

NextLoop ==
    \/ EnterLoop
    \/ LoopBody
    \/ LoopReturn
    \/ \E listing \in RacingGroupListings : ClusterGroupsChange(listing)

SpecLoop == InitLoop /\ [][NextLoop]_vars

(***************************************************************************)
(* SpecMetrics: a CollectorCollection of the metrics package                *)
(* (src/internal/metrics/metrics.go).  subject is the package variable     *)
(* enabled, the collectors of the collection with the series each holds,   *)
(* and the collector function the collection was built with.  A panic is   *)
(* a value that a call hands to its caller instead of returning.           *)
(***************************************************************************)
NoPanic == [panic |-> "none"]
PanicString(msg) == [panic |-> "string", value |-> msg]
PanicOther == [panic |-> "error"]

\* the collector types Delete knows (metrics.go:98-103)
VecTypes == {"MetricVec", "CounterVec", "GaugeVec"}

MetricNames == {"desired_ready", "state"}

\* the orders in which a range over the map may visit the collectors
MetricOrders == { <<a, b>> : a, b \in MetricNames } \ { <<a, a>> : a \in MetricNames }

\* the collector function: it writes the series of the object, or panics
\* with a string before writing, or writes and panics with another value
CollectorKinds == {"sets", "panics", "setsAndPanics"}

MetricObjects == [name : {"a", "b"}, namespace : {"n1", "n2"}, state : {"Ready", "NotReady"}]

Identified(series, name, namespace) ==
    { s \in series : s.name = name /\ s.namespace = namespace }

\* DeletePartialMatch on the name and namespace labels
DeletePartialMatch(series, name, namespace) == series \ Identified(series, name, namespace)

RECURSIVE CollectorCollectionDelete(_, _, _, _, _)
\* metrics.go:91-110; order is the order of the range over c.metrics
CollectorCollectionDelete(metrics, order, name, namespace, deleted) ==
    IF order = <<>> THEN [metrics |-> metrics, deleted |-> deleted, panic |-> NoPanic]
    ELSE LET m == Head(order)
         IN IF metrics[m].type \in VecTypes
            THEN CollectorCollectionDelete(
                     [metrics EXCEPT ![m].series = DeletePartialMatch(@, name, namespace)],
                     Tail(order), name, namespace,
                     deleted + Cardinality(Identified(metrics[m].series, name, namespace)))
            ELSE [ metrics |-> metrics, deleted |-> deleted,
                   panic |-> PanicString("unexpected metric type") ]

\* metrics.go:61, 86: c.collector(obj, c.metrics)
collector(kind, obj, metrics) ==
    LET written == [ m \in DOMAIN metrics |->
                       [metrics[m] EXCEPT !.series = @ \cup {[ name |-> obj.name,
                                                               namespace |-> obj.namespace,
                                                               state |-> obj.state ]}] ]
    IN CASE kind = "sets" -> [metrics |-> written, panic |-> NoPanic]
         [] kind = "panics" -> [metrics |-> metrics, panic |-> PanicString("unexpected object type")]
         [] OTHER -> [metrics |-> written, panic |-> PanicOther]

\* metrics.go:75-83: the deferred function logs what recover returned
Recovered(r) == [msg |-> IF r.panic = "string" THEN r.value ELSE "unexpected error"]

Outcome(metrics, trace, panic, logged) ==
    [metrics |-> metrics, trace |-> trace, panic |-> panic, logged |-> logged]

\* variant: Collect without the deferred recover
CollectorCollectionCollectUnprotected(enabled, c, order, obj) ==
    IF ~enabled THEN Outcome(c.metrics, <<>>, NoPanic, <<>>)
    ELSE LET d == CollectorCollectionDelete(c.metrics, order, obj.name, obj.namespace, 0)
         IN IF d.panic /= NoPanic
            THEN Outcome(d.metrics, <<"Delete">>, d.panic, <<>>)
            ELSE LET col == collector(c.collector, obj, d.metrics)
                 IN Outcome(col.metrics, <<"Delete", "collector">>, col.panic, <<>>)

\* metrics.go:70-87
CollectorCollectionCollect(enabled, c, order, obj) ==
    IF ~enabled THEN Outcome(c.metrics, <<>>, NoPanic, <<>>)
    ELSE LET d == CollectorCollectionDelete(c.metrics, order, obj.name, obj.namespace, 0)
         IN IF d.panic /= NoPanic
            THEN Outcome(d.metrics, <<"Delete">>, NoPanic, <<Recovered(d.panic)>>)
            ELSE LET col == collector(c.collector, obj, d.metrics)
                 IN IF col.panic /= NoPanic
                    THEN Outcome(col.metrics, <<"Delete", "collector">>, NoPanic,
                                 <<Recovered(col.panic)>>)
                    ELSE Outcome(col.metrics, <<"Delete", "collector">>, NoPanic, <<>>)

\* metrics.go:32-33
RegisterMetricsCall ==
    /\ ~subject.enabled
    /\ subject' = [subject EXCEPT !.enabled = TRUE]
    /\ UNCHANGED applied
    /\ PureFrame

\* a controller calls Collect for an object; the call is kept with the
\* value of enabled and the collectors it found
CollectCall(obj, order) ==
    /\ LET out == CollectorCollectionCollect(subject.enabled, subject.collection, order, obj)
       IN /\ applied' = Applied("Collect", <<obj, subject.enabled, subject.collection.metrics>>, out)
          /\ subject' = [subject EXCEPT !.collection.metrics = out.metrics]
    /\ PureFrame

\* metrics.go:29: enabled = false; the collectors hold no series
InitMetrics ==
    /\ InitPure
    /\ \E second \in VecTypes \cup {"Histogram"}, kind \in CollectorKinds :
          subject = [ enabled |-> FALSE,
                      collection |->
                          [ metrics |-> [ m \in MetricNames |->
                                            [ type |-> IF m = "state" THEN second ELSE "GaugeVec",
                                              series |-> {} ] ],
                            collector |-> kind ] ]

NextMetrics ==
    \/ RegisterMetricsCall
    \/ \E obj \in MetricObjects, order \in MetricOrders : CollectCall(obj, order)

SpecMetrics == InitMetrics /\ [][NextMetrics]_vars

(***************************************************************************)
(* Properties                                                              *)
(***************************************************************************)
\* the tracker key of the resource the last reconcile was invoked for
LastResource == ResourceKey(cfg.kind, last.key.namespace, last.key.name)

\* the counters the last operation raised for that resource, with the amounts
LastEvents == { <<t[2], t[3]>> : t \in { u \in last.recorded : u[1] = LastResource } }

\* the counters the last operation raised for any resource
LastFired == { t[2] : t \in last.recorded }

\* the event values of the lines the last operation logged
LastLogged == { last.logs[i].event : i \in DOMAIN last.logs }

LastReconcile == last.op = "Reconcile" /\ last.gets = 1

\* the fetch of the last reconcile returned an object
LastFetchedObject == LastReconcile /\ last.fetched \notin {NotFound, FetchError, NoFetch}

\* the last reconcile compared a cached observation with a live object
LastDiff == LastFetchedObject /\ last.old /= NoEntry /\ ~last.fetched.deleting

Once(eventType) == {<<eventType, 1>>}

\* C1: a reconcile invocation changes nothing of the API server's state (and
\* nothing of the reconciler's registration): whatever the path it takes, the
\* objects served after it are the objects served before it.
C1_ReconcileWritesNothing ==
    [][last'.op = "Reconcile" => (api' = api /\ cfg' = cfg)]_vars

\* a reconcile took the diff path, recorded events and replaced the cache
\* entry, and the object on the server is still the one it fetched
C1_Witness ==
    /\ LastDiff
    /\ last.recorded /= {}
    /\ cache[last.key] /= last.old
    /\ api[last.key] = last.fetched

\* C2: the run under the configured DetailedLogs/EventFilters and the run that
\* logs every line, fed the same requests and fetch results, hold the same
\* tracker contents and the same cache contents after every operation.
C2_StatsAndCacheIgnoreLogging ==
    /\ twin.stats = stats
    /\ twin.cache = cache

\* both runs have recorded a create and a trigger and cached an object, and
\* the configured run showed no line for the last operation
C2_Witness ==
    /\ [DetailedLogs |-> cfg.DetailedLogs, EventFilters |-> cfg.EventFilters]
          /= [DetailedLogs |-> twin.DetailedLogs, EventFilters |-> twin.EventFilters]
    /\ \E k \in DOMAIN stats : stats[k].Counts[EventTypeCreate] > 0
    /\ \E k \in DOMAIN stats : stats[k].TriggeredBy["BundleDeployment"] > 0
    /\ \E key \in Keys : cache[key] /= NoEntry
    /\ last.op = "Reconcile"
    /\ last.logs = <<>>

\* C3: for each of the eight event kinds that fired in the last operation, a
\* line of that kind was logged iff DetailedLogs is set and ShouldLog(kind)
\* holds; when a related-resource trigger was recorded, its line was logged iff
\* DetailedLogs is set and ShouldLogTrigger holds.
C3_LineIffDetailedAndFiltered ==
    /\ \A k \in EventTypes :
          k \in LastFired =>
             (k \in LastLogged <=> (cfg.DetailedLogs /\ ShouldLog(cfg.EventFilters, k)))
    /\ LastFired \cap TriggerTypes /= {} =>
          ("related-resource-trigger" \in LastLogged
              <=> (cfg.DetailedLogs /\ ShouldLogTrigger(cfg.EventFilters)))

\* detailed mode with a filter: two kinds fired, the enabled one was logged
\* and the disabled one was not
C3_Witness ==
    /\ LastReconcile
    /\ cfg.DetailedLogs
    /\ {EventTypeGenerationChange, EventTypeStatusChange} \subseteq LastFired
    /\ EventTypeStatusChange \in LastLogged
    /\ EventTypeGenerationChange \notin LastLogged

\* C4: a reconcile that fetches an object without deletion timestamp while the
\* cache has no entry for the key records exactly one event for the key, a
\* Create, leaves the fetched object as the cache entry and returns success.
C4_CreatePath ==
    (LastFetchedObject /\ last.old = NoEntry /\ ~last.fetched.deleting) =>
        /\ LastEvents = Once(EventTypeCreate) \cup Once("total_events")
        /\ cache[last.key] = last.fetched
        /\ last.err = NoError

C4_Witness ==
    /\ LastFetchedObject
    /\ last.old = NoEntry
    /\ ~last.fetched.deleting
    /\ <<EventTypeCreate, 1>> \in LastEvents
    /\ cache[last.key] = last.fetched

\* C5: after a reconcile whose fetch returns not-found, in every monitor
\* reconciler, a NotFound event has been recorded for the key, the cache holds
\* no entry for the key and the reconcile has returned success.
C5_NotFoundPath ==
    (LastReconcile /\ last.fetched = NotFound) =>
        /\ <<EventTypeNotFound, 1>> \in LastEvents
        /\ cache[last.key] = NoEntry
        /\ last.err = NoError

\* C6: a reconcile that fetches an object with a deletion timestamp records
\* exactly one event for the key, a Deletion, leaves no cache entry for the
\* key whether or not one existed, and returns success; the next reconcile of
\* the key that fetches the object without deletion timestamp records a Create.
C6_DeletionPath ==
    /\ (LastFetchedObject /\ last.fetched.deleting) =>
          /\ LastEvents = Once(EventTypeDeletion) \cup Once("total_events")
          /\ cache[last.key] = NoEntry
          /\ last.err = NoError
    /\ (LastFetchedObject /\ ~last.fetched.deleting /\ last.saw = "deleting") =>
          <<EventTypeCreate, 1>> \in LastEvents

\* the reconcile after a deletion reconcile has fetched the object live
C6_Witness ==
    /\ LastFetchedObject
    /\ ~last.fetched.deleting
    /\ last.saw = "deleting"
    /\ cache[last.key] = last.fetched

\* C7: a reconcile whose fetch fails with an error other than not-found
\* returns that error, records no event and leaves the cache entry of the key
\* as it was.
C7_FetchErrorPath ==
    (LastReconcile /\ last.fetched = FetchError) =>
        /\ last.err = FetchError
        /\ last.recorded = {}
        /\ cache[last.key] = last.old

\* the fetch failed while the cache held an entry for the key
C7_Witness ==
    /\ LastReconcile
    /\ last.fetched = FetchError
    /\ last.old /= NoEntry
    /\ last.err = FetchError

\* the events C8 expects of a diff between a cached and a fetched object
DiffEvents(old, new) ==
    (IF old.generation /= new.generation THEN {EventTypeGenerationChange} ELSE {})
    \cup (IF old.status.conditions.elems /= new.status.conditions.elems
          THEN {EventTypeStatusChange} ELSE {})
    \cup (IF old.resourceVersion /= new.resourceVersion
          THEN {EventTypeResourceVersionChange} ELSE {})
    \cup (IF old.annotations.elems /= new.annotations.elems
          THEN {EventTypeAnnotationChange} ELSE {})
    \cup (IF old.labels.elems /= new.labels.elems THEN {EventTypeLabelChange} ELSE {})

\* C8: on the diff path the reconcile records exactly the events whose
\* precondition holds between cached and fetched object (generation differs,
\* status semantically differs, resource version differs, annotations
\* semantically differ, labels semantically differ), each once and none other.
C8_DiffRecordsExactly ==
    LastDiff =>
        LET expected == DiffEvents(last.old, last.fetched)
        IN LastEvents =
              { <<e, 1>> : e \in expected }
              \cup (IF expected = {} THEN {} ELSE {<<"total_events", Cardinality(expected)>>})

\* all five preconditions held and all five events were recorded
C8_Witness ==
    /\ LastDiff
    /\ Cardinality(DiffEvents(last.old, last.fetched)) = 5
    /\ <<"total_events", 5>> \in LastEvents

\* C9: a reconcile that finds a cached object with the same resourceVersion
\* string as the fetched one records no ResourceVersionChange.
C9_SameResourceVersionNoEvent ==
    (LastFetchedObject /\ last.old /= NoEntry
        /\ last.old.resourceVersion = last.fetched.resourceVersion) =>
        EventTypeResourceVersionChange \notin LastFired

\* same resource version while generation, spec, status, annotations, labels
\* and finalizers all differ, and the other four events were recorded
C9_Witness ==
    /\ LastDiff
    /\ last.old.resourceVersion = last.fetched.resourceVersion
    /\ last.old.finalizers /= last.fetched.finalizers
    /\ last.old.spec /= last.fetched.spec
    /\ <<"total_events", 4>> \in LastEvents

\* C10: on the diff path a GenerationChange is recorded iff the generations
\* of cached and fetched object differ, whether or not their specs differ.
C10_GenerationChangeIffGenerationsDiffer ==
    LastDiff =>
        (EventTypeGenerationChange \in LastFired
            <=> last.old.generation /= last.fetched.generation)

\* generations differ and specs are identical: the event was recorded
C10_Witness ==
    /\ LastDiff
    /\ last.old.generation /= last.fetched.generation
    /\ last.old.spec = last.fetched.spec
    /\ EventTypeGenerationChange \in LastFired

\* C11: when a reconcile of a key has fetched a live object and returned
\* success (create or diff path) and the next operation is a reconcile of the
\* same key that fetches the same object, that second reconcile records no
\* event and leaves every counter and total of the tracker as it was.
C11_RepeatedReconcileRecordsNothing ==
    [][ ( /\ last.op = "Reconcile"
          /\ last.gets = 1
          /\ last.fetched \notin {NotFound, FetchError, NoFetch}
          /\ ~last.fetched.deleting
          /\ last.err = NoError
          /\ last'.op = "Reconcile"
          /\ last'.key = last.key
          /\ last'.fetched = last.fetched )
        => (last'.recorded = {} /\ stats' = stats) ]_vars

\* the second reconcile after a diff that recorded a status change: nothing
\* was recorded, the cache entry is the fetched object
C11_Witness ==
    /\ LastDiff
    /\ last.old = last.fetched
    /\ last.recorded = {}
    /\ LastResource \in DOMAIN stats
    /\ stats[LastResource].Counts[EventTypeStatusChange] = 1

RECURSIVE SumCalls(_, _)
SumCalls(f, counters) ==
    IF counters = {} THEN 0
    ELSE LET c == CHOOSE x \in counters : TRUE
         IN f[c] + SumCalls(f, counters \ {c})

\* "namespace/name" as the summary names a resource
SummaryName(key) ==
    IF key.Namespace = "" THEN key.Name ELSE key.Namespace \o "/" \o key.Name

\* C13: a summary reports for every key, under its resource type and name,
\* each event-kind count as the number of RecordEvent calls of that kind, each
\* trigger-type count as the number of RecordTrigger calls of that type, and
\* the total as the number of all these calls, counted since construction or
\* the last Reset; a key without a call has no entry.
C13_SummaryCountsCalls ==
    last.op = "GetSummary" =>
        \A key \in StatKeys :
           LET made == history.calls[key]
               entry == <<key.ResourceType, SummaryName(key)>>
           IN IF SumCalls(made, DOMAIN made) = 0
              THEN entry \notin DOMAIN last.summary.Summary
              ELSE /\ entry \in DOMAIN last.summary.Summary
                   /\ \A e \in EventTypes : last.summary.Summary[entry].Counts[e] = made[e]
                   /\ \A t \in TriggerTypes :
                         last.summary.Summary[entry].TriggeredBy[t] = made[t]
                   /\ last.summary.Summary[entry].Total = SumCalls(made, DOMAIN made)

\* a summary taken after an event and a trigger were recorded for one key
C13_Witness ==
    /\ last.op = "GetSummary"
    /\ \E key \in StatKeys :
          /\ history.calls[key][EventTypeCreate] = 1
          /\ history.calls[key]["Cluster"] = 1
          /\ last.summary.Summary[<<key.ResourceType, SummaryName(key)>>].Total = 2

\* C15: a summary taken after Reset and before any further Record* call
\* reports no resource, zero monitored resources and zero events, and its
\* interval is the time since the Reset call.
C15_SummaryAfterReset ==
    ( /\ last.op = "GetSummary"
      /\ history.anchoredBy = "Reset"
      /\ history.calls = NoCalls ) =>
        /\ DOMAIN last.summary.Summary = {}
        /\ last.summary.Totals.TotalResourcesMonitored = 0
        /\ last.summary.Totals.TotalEvents = 0
        /\ last.summary.IntervalSeconds = last.summary.Timestamp - history.anchoredAt

\* the tracker was reset one second after construction and summarised one
\* second later
C15_Witness ==
    /\ last.op = "GetSummary"
    /\ history.anchoredBy = "Reset"
    /\ history.calls = NoCalls
    /\ history.anchoredAt = 1
    /\ last.summary.Timestamp = 2
    /\ last.summary.IntervalSeconds = 1

\* C14: whenever no worker is inside RecordEvent or RecordTrigger, every
\* counter of every key equals the number of calls made for it and every total
\* the number of calls made for the key, however the calls of the workers and
\* the GetSummary calls were interleaved; and every summary a worker took
\* shows, for each resource, a total that is the sum of its counts.
C14_NoLostUpdates ==
    /\ (\A w \in Workers : work[w].op \in {"RecordEvent", "RecordTrigger"} => work[w].pc = "idle")
          => \A key \in WorkerKeys :
                LET made == history.calls[key]
                IN /\ \A c \in DOMAIN made : CounterOf(stats, key, c) = made[c]
                   /\ CounterOf(stats, key, "total_events") = SumCalls(made, DOMAIN made)
    /\ \A w \in Workers :
          (work[w].op = "GetSummary" /\ work[w].pc \in {"RUnlock", "idle"}) =>
             \A e \in DOMAIN work[w].summary.Summary :
                LET entry == work[w].summary.Summary[e]
                IN entry.Total = SumCalls(entry.Counts, DOMAIN entry.Counts)
                                    + SumCalls(entry.TriggeredBy, DOMAIN entry.TriggeredBy)

\* two calls for the same key, the second entered while the first was in
\* progress, have both returned and both are counted
C14_Witness ==
    /\ \A w \in Workers : work[w].pc = "idle"
    /\ \E w \in Workers : work[w].contended /\ work[w].op = "RecordEvent"
    /\ \E key \in WorkerKeys :
          /\ key \in DOMAIN stats
          /\ stats[key].Counts[EventTypeCreate] = 2
          /\ stats[key].Total = 2

\* C16: on a filter value none of whose nine flags is set, IsEmpty returns
\* true, ShouldLog returns true for every event type, the declared ones and
\* any other, and ShouldLogTrigger returns true.
NoFlagSet(f) == \A flag \in DOMAIN f : ~f[flag]

C16_EmptyFilterLogsEverything ==
    (NoFlagSet(subject) /\ applied.fn \in {"IsEmpty", "ShouldLog", "ShouldLogTrigger"})
        => applied.result = TRUE

\* ShouldLog was asked about create events on the filter with no flag set
C16_Witness ==
    /\ subject = NoFilters
    /\ applied.fn = "ShouldLog"
    /\ applied.args = <<EventTypeCreate>>
    /\ applied.result = TRUE

\* C17: Matches returns true for every namespace and name when the filter is
\* nil or when both of its patterns are empty, before Compile was called on
\* the filter as well as after.
MatchesAll(f) == f = NilFilter \/ (f.NamespacePattern = "" /\ f.NamePattern = "")

C17_EmptyFilterMatchesAll ==
    (applied.fn = "Matches" /\ MatchesAll(subject.filter)) => applied.result = TRUE

\* Matches was called on a filter with both patterns empty that was never compiled
C17_Witness ==
    /\ applied.fn = "Matches"
    /\ subject.filter /= NilFilter
    /\ MatchesAll(subject.filter)
    /\ ~subject.compiled
    /\ applied.args = <<"fleet-local", "b2">>
    /\ applied.result = TRUE

\* C18: when the namespace or name pattern configured for a controller is not
\* a valid regular expression, start returns the compilation error, the
\* controller is not registered and no reconcile of its resource type runs.
InvalidFilter(f) == Compile(f).err /= NoError

C18_InvalidFilterDoesNotStart ==
    InvalidFilter(subject.options.ResourceFilter) =>
        /\ ~subject.registered
        /\ last = Started
        /\ applied.fn = "start" => applied.result = Compile(subject.options.ResourceFilter).err

\* C19: whichever controller runs, a reconcile request whose namespace and
\* name the resource filter configured for the controller rejects returns
\* success, fetches nothing, records no event, logs nothing and leaves the
\* cache and the tracker as they were.
Rejects(f, key) == ~InvalidFilter(f) /\ ~Matches(Compile(f).filter, key.namespace, key.name)

C19_RejectedRequestIsNoOp ==
    [][(last'.op = "Reconcile" /\ Rejects(subject.options.ResourceFilter, last'.key))
          => /\ last'.err = NoError
             /\ last'.gets = 0
             /\ last'.recorded = {}
             /\ last'.logs = <<>>
             /\ cache' = cache
             /\ stats' = stats]_vars

\* C20: the two lists of a successful BundlesForCluster have no bundle
\* (namespace and name) in common, and of the bundles in scope those whose
\* matcher matches the cluster's name, the labels of the cluster groups the
\* cluster belongs to or the cluster's labels are exactly the bundles to
\* refresh, and those whose matcher is valid and does not match are exactly
\* the bundles to clean up.
KeysOf(list) == { <<list[i].Namespace, list[i].Name>> : i \in DOMAIN list }

ElementsOf(list) == { list[i] : i \in DOMAIN list }

\* the groups of the cluster's namespace whose selector matches the cluster's labels
GroupLabels(world, cluster) ==
    LET members == { g \in ElementsOf(world.clusterGroups) :
                        /\ g.Namespace = cluster.Namespace
                        /\ SelectorMatches(g.Selector, cluster.Labels) }
    IN [name \in {g.Name : g \in members} |-> (CHOOSE g \in members : g.Name = name).Labels]

MatcherMatches(world, cluster, bundle) ==
    /\ ~MatcherNewError(bundle)
    /\ Match(bundle, cluster.Name, GroupLabels(world, cluster), cluster.Labels)

Successful == applied.fn = "BundlesForCluster" /\ applied.result.err = NoError

C20_RefreshAndCleanupPartition ==
    Successful =>
        LET scope == ElementsOf(getBundlesInScopeForCluster(subject.world, subject.cluster).bundles)
            refresh == applied.result.bundlesToRefresh
            cleanup == applied.result.bundlesToCleanup
        IN /\ KeysOf(refresh) \cap KeysOf(cleanup) = {}
           /\ ElementsOf(refresh) = { b \in scope : MatcherMatches(subject.world, subject.cluster, b) }
           /\ ElementsOf(cleanup) =
                 { b \in scope : /\ ~MatcherNewError(b)
                                 /\ ~MatcherMatches(subject.world, subject.cluster, b) }

\* a successful call that refreshes a bundle, cleans up another and ignores a
\* third, in scope through a namespace mapping, whose matcher is invalid
C20_Witness ==
    /\ Successful
    /\ applied.result.bundlesToRefresh /= <<>>
    /\ applied.result.bundlesToCleanup /= <<>>
    /\ \E b \in ElementsOf(getBundlesInScopeForCluster(subject.world, subject.cluster).bundles) :
          b.Namespace = "other" /\ MatcherNewError(b)

\* a mapping applies to the cluster and selects the bundle: both selectors are
\* present and parse, the namespace selector matches the labels of the
\* cluster's namespace object, the bundle lives in the mapping's namespace and
\* the bundle selector matches the bundle's labels
ValidSelector(selector) == selector \notin {NilSelector, InvalidSelector}

Applies(world, cluster, m) ==
    /\ ValidSelector(m.BundleSelector)
    /\ ValidSelector(m.NamespaceSelector)
    /\ cluster.Namespace \in DOMAIN world.namespaces
    /\ <<m.NamespaceSelector.key, m.NamespaceSelector.value>> \in world.namespaces[cluster.Namespace]

Selects(m, b) ==
    /\ b.Namespace = m.Namespace
    /\ <<m.BundleSelector.key, m.BundleSelector.value>> \in b.Labels

Mapped(world, cluster, b) ==
    \E m \in ElementsOf(world.mappings) : Applies(world, cluster, m) /\ Selects(m, b)

\* an agent bundle that is not the agent bundle of the cluster
OtherAgent(cluster, b) ==
    AgentAnnotation \in b.Annotations /\ b.Name /= "fleet-agent-" \o cluster.Name

InScope(world, cluster) ==
    { b \in ElementsOf(world.bundles) :
        \/ b.Namespace = cluster.Namespace /\ ~OtherAgent(cluster, b)
        \/ Mapped(world, cluster, b) }

Refreshed == ElementsOf(applied.result.bundlesToRefresh)
CleanedUp == ElementsOf(applied.result.bundlesToCleanup)

\* C21 as stated: after a successful call every bundle in scope is in exactly
\* one of the two lists.
C21_EveryScopedBundleInOneList ==
    Successful =>
        \A b \in InScope(subject.world, subject.cluster) :
            (b \in Refreshed) /= (b \in CleanedUp)

\* C21: after a successful call every bundle in scope whose matcher can be
\* built is in exactly one of the two lists, and every bundle in scope whose
\* matcher cannot be built is in neither.
C21_ScopedBundleWithMatcherInOneList ==
    Successful =>
        \A b \in InScope(subject.world, subject.cluster) :
            IF MatcherNewError(b)
            THEN b \notin Refreshed /\ b \notin CleanedUp
            ELSE (b \in Refreshed) /= (b \in CleanedUp)

\* a successful call with a bundle of the cluster's namespace in one list, a
\* mapped bundle in a list and a bundle in scope that is in neither
C21_Witness ==
    /\ Successful
    /\ \E b \in InScope(subject.world, subject.cluster) :
          b.Namespace = "other" /\ b \in Refreshed
    /\ \E b \in InScope(subject.world, subject.cluster) :
          b.Namespace = "fleet-default" /\ MatcherNewError(b) /\ b \notin Refreshed \cup CleanedUp
    /\ \E b \in InScope(subject.world, subject.cluster) :
          b.Namespace = "fleet-default" /\ b \in Refreshed

Lacking(m) == m.BundleSelector = NilSelector \/ m.NamespaceSelector = NilSelector

WithoutMappings(world) == [world EXCEPT !.mappings = <<>>]

C23_MappingWithoutSelectorMatchesNothing ==
    /\ (applied.fn = "newBundleMapping" /\ Lacking(applied.args[1])) =>
          /\ applied.result.err = NoError
          /\ applied.result.MatchesNamespace = FALSE
          /\ applied.result.Bundles = [items |-> <<>>, err |-> NoError]
    /\ (applied.fn = "BundlesForCluster" /\ \A m \in ElementsOf(subject.world.mappings) : Lacking(m)
          /\ subject.world.fails /= "mappings") =>
          applied.result = BundlesForCluster(WithoutMappings(subject.world), subject.cluster)

\* Bundles of a mapping without namespace selector was called while the
\* listing of bundles fails and a bundle matches the bundle selector
C23_Witness ==
    /\ applied.fn = "newBundleMapping"
    /\ applied.args[1].NamespaceSelector = NilSelector
    /\ applied.args[2] = "fleet-default"
    /\ subject.world.fails = "mappingBundles"
    /\ \E b \in ElementsOf(subject.world.bundles) : Selects(applied.args[1], b)
    /\ applied.result.Bundles.items = <<>>

\* C24: after a successful call a bundle outside the cluster's namespace is in
\* scope (refreshed, cleaned up or ignored for its matcher) exactly when some
\* mapping with both selectors valid has a namespace selector matching the
\* labels of the cluster's namespace object, lives in the bundle's namespace
\* and has a bundle selector matching the bundle's labels.
Ignored == ElementsOf(applied.result.ignored)

C24_OutsideBundleInScopeIffMapped ==
    Successful =>
        \A b \in ElementsOf(subject.world.bundles) :
            /\ b.Namespace /= subject.cluster.Namespace =>
                (b \in Refreshed \cup CleanedUp \cup Ignored <=> Mapped(subject.world, subject.cluster, b))
            /\ Mapped(subject.world, subject.cluster, b) => b \in Refreshed \cup CleanedUp \cup Ignored

\* a bundle of another namespace is in scope through a mapping that applies
C24_Witness ==
    /\ Successful
    /\ \E b \in Refreshed \cup CleanedUp :
          /\ b.Namespace /= subject.cluster.Namespace
          /\ Mapped(subject.world, subject.cluster, b)
    /\ \E b \in Refreshed : b.Namespace = subject.cluster.Namespace

\* C25: the lists of a successful call are strictly ascending in the string
\* "namespace/name" (so no key occurs twice in a list, however many ways the
\* bundle came into scope), and the call returns the same when the API server
\* lists the bundles and the mappings in the opposite order.
Ascending(list) ==
    \A i, j \in DOMAIN list : i < j => KeyRank(BundleKey(list[i])) < KeyRank(BundleKey(list[j]))

Reordered(world) == [world EXCEPT !.bundles = Reverse(@), !.mappings = Reverse(@)]

C25_ListsSortedAndOrderIndependent ==
    applied.fn = "BundlesForCluster" =>
        /\ Ascending(applied.result.bundlesToRefresh)
        /\ Ascending(applied.result.bundlesToCleanup)
        /\ Ascending(getBundlesInScopeForCluster(subject.world, subject.cluster).bundles)
        /\ applied.result = BundlesForCluster(Reordered(subject.world), subject.cluster)

\* the bundles are listed in descending order, two mappings apply, a bundle
\* of the cluster's namespace is also selected by a mapping, and two or more
\* bundles are refreshed
C25_Witness ==
    /\ Successful
    /\ Len(subject.world.mappings) = 2
    /\ Len(subject.world.bundles) >= 2
    /\ ~Ascending(subject.world.bundles)
    /\ Len(applied.result.bundlesToRefresh) >= 2
    /\ \E b \in Refreshed :
          b.Namespace = subject.cluster.Namespace /\ Mapped(subject.world, subject.cluster, b)

\* C26: BundlesForCluster returns an error exactly when a list call it makes
\* fails (the bundles of the cluster's namespace, the mappings, the bundles of
\* a mapping that applies, or the cluster groups, listed once for every bundle
\* in scope whose matcher is valid), and then it returns that error, no bundle
\* to refresh and no bundle to clean up, also when bundles were classified
\* before the failure.
WithMatcher(world, cluster) == { b \in InScope(world, cluster) : ~MatcherNewError(b) }

FailingCallMade(world, cluster) ==
    CASE world.fails = "bundles" -> TRUE
      [] world.fails = "mappings" -> TRUE
      [] world.fails = "mappingBundles" ->
            \E m \in ElementsOf(world.mappings) : Applies(world, cluster, m)
      [] world.fails = "clusterGroups" -> Cardinality(WithMatcher(world, cluster)) > world.after
      [] OTHER -> FALSE

C26_ListFailureAbortsQuery ==
    applied.fn = "BundlesForCluster" =>
        IF FailingCallMade(subject.world, subject.cluster)
        THEN /\ applied.result.err = ListError(subject.world.fails)
             /\ applied.result.bundlesToRefresh = <<>>
             /\ applied.result.bundlesToCleanup = <<>>
        ELSE applied.result.err = NoError

\* the listing of cluster groups failed for the second bundle, after the
\* first bundle had been classified
C26_Witness ==
    /\ applied.fn = "BundlesForCluster"
    /\ subject.world.fails = "clusterGroups"
    /\ subject.world.after = 1
    /\ Cardinality(WithMatcher(subject.world, subject.cluster)) >= 2
    /\ applied.result.err = ListError("clusterGroups")
    /\ applied.result.bundlesToRefresh = <<>>

\* C27: once the context is cancelled the printer eventually returns; after
\* it has returned, nothing more is emitted and neither GetSummary nor Reset
\* nor UpdateLastSummaryTime is applied; and every tick it handles is
\* GetSummary, then the summary line, then Reset in reset mode and
\* UpdateLastSummaryTime in cumulative mode.
TickOps ==
    <<"GetSummary", "Info", IF subject.reset THEN "Reset" ELSE "UpdateLastSummaryTime">>

SameState(a, b) ==
    /\ a.generation = b.generation
    /\ a.resourceVersion = b.resourceVersion
    /\ a.spec = b.spec
    /\ a.status = b.status
    /\ a.annotations = b.annotations
    /\ a.labels = b.labels

\* the step is a reconcile of key that fetched a live object and returned success
StoresFetched(step, key) ==
    /\ step.op = "Reconcile"
    /\ step.gets = 1
    /\ step.key = key
    /\ step.fetched \notin {NotFound, FetchError, NoFetch}
    /\ ~step.fetched.deleting
    /\ step.err = NoError

\* C28: a reconcile that returns success on the create or diff path leaves the
\* object it fetched as the cache entry of the key, and no other step changes
\* a cache entry other than by removing it; so the old side of a diff is what
\* the most recent successful reconcile that fetched the key live has seen.
C28_CacheHoldsLastFetched ==
    [][ \A key \in Keys :
          IF StoresFetched(last', key)
          THEN /\ cache'[key] /= NoEntry
               /\ SameState(cache'[key], last'.fetched)
               /\ last'.old = cache[key]
          ELSE cache'[key] \in {cache[key], NoEntry} ]_vars

\* a diff that found a change, with the cache entry replaced by the fetched object
C28_Witness ==
    /\ LastDiff
    /\ last.err = NoError
    /\ last.old.resourceVersion /= last.fetched.resourceVersion
    /\ last.old.generation /= last.fetched.generation
    /\ cache[last.key] = last.fetched
    /\ cache[last.key] /= last.old

\* the statistics of a key of the Cluster monitor, absent or present
StatsOfKey(s, key) ==
    IF ResourceKey("Cluster", key.namespace, key.name) \in DOMAIN s
    THEN s[ResourceKey("Cluster", key.namespace, key.name)]
    ELSE [none |-> TRUE]

\* C29: with reconciles of different keys interleaved on different workers,
\* no step of a reconcile of one key adds, changes or removes the cache entry
\* or the statistics of another key, and whenever no reconcile of a key is in
\* progress its cache entry and its statistics are those of a run in which
\* only that key was reconciled, with the same fetches.
C29_KeysDoNotInterfere ==
    /\ [][ \A key \in Keys :
             (last'.worker /= 0 /\ last'.key /= key) =>
                 /\ cache'[key] = cache[key]
                 /\ StatsOfKey(stats', key) = StatsOfKey(stats, key) ]_vars
    /\ [](\A key \in Keys :
            ~InFlight(key) =>
                /\ cache[key] = twin[key].cache[key]
                /\ StatsOfKey(stats, key) = StatsOfKey(twin[key].stats, key))
    /\ [](DOMAIN stats \subseteq { ResourceKey("Cluster", k.namespace, k.name) : k \in Keys })

\* a diff of one key has completed while a reconcile of the other key was
\* between its fetch and its cache write, and both have recorded events
C29_Witness ==
    /\ last.op = "Set"
    /\ \E w \in Workers :
          /\ work[w].pc \in {"create", "set", "diff", "delete"}
          /\ work[w].key /= last.key
          /\ StatsOfKey(stats, work[w].key) /= [none |-> TRUE]
    /\ StatsOfKey(stats, last.key) /= [none |-> TRUE]
    /\ StatsOfKey(stats, last.key).Total = 2
    /\ cache[last.key] /= NoEntry

\* what a Summary says, read through its pointers
SummaryValue(summary, h) ==
    [ Timestamp |-> summary.Timestamp,
      IntervalSeconds |-> summary.IntervalSeconds,
      Summary |-> [e \in DOMAIN summary.Summary |-> Deref(h, summary.Summary[e])],
      Totals |-> summary.Totals ]

\* C30: RecordEvent, RecordTrigger and Reset calls made after GetSummary has
\* returned leave every count, trigger count and total of the returned
\* Summary as it was, and a write of the caller into the returned Summary
\* leaves the counters of the tracker as they were.
C30_SummaryIsIsolatedSnapshot ==
    [][ /\ (held /= NoSummary /\ last'.op \in {"RecordEvent", "RecordTrigger", "Reset"}) =>
              SummaryValue(held', heap') = SummaryValue(held, heap)
        /\ last'.op = "Modify" =>
              /\ TrackerValue(stats', heap') = TrackerValue(stats, heap)
              /\ lastSummaryTime' = lastSummaryTime ]_vars

\* the caller has overwritten the total of an entry of the Summary it holds,
\* and the tracker has since counted a second event for the key of that entry
C30_Witness ==
    /\ last.op = "RecordEvent"
    /\ held /= NoSummary
    /\ \E key \in DOMAIN stats :
          /\ <<key.ResourceType, String(key)>> \in DOMAIN held.Summary
          /\ heap[held.Summary[<<key.ResourceType, String(key)>>]].Total = Scribble
          /\ Deref(heap, held.Summary[<<key.ResourceType, String(key)>>]).Counts[EventTypeCreate] = 1
          /\ Deref(heap, stats[key]).Counts[EventTypeCreate] = 2
          /\ heap[stats[key]].Total = 2

\* C31: in every summary the number of monitored resources is the number of
\* entries of the summary map, the total of events is the sum of the totals of
\* those entries, and every key of the tracker has an entry of its own, with
\* its own counts, whatever strings its namespace and name are.
C31_SummaryConsistentForAllStrings ==
    last.op = "GetSummary" =>
        /\ last.summary.Totals.TotalResourcesMonitored = Cardinality(DOMAIN last.summary.Summary)
        /\ last.summary.Totals.TotalEvents =
              SumTotals(last.summary.Summary, DOMAIN last.summary.Summary)
        /\ \A key \in DOMAIN stats :
              last.summary.Summary[<<key.ResourceType, String(key)>>] = stats[key]

\* the later of two times
Later(a, b) == IF a >= b THEN a ELSE b

\* C32: the interval a GetSummary call reports is the time since the most
\* recent of the previous GetSummary call, the last Reset and the last
\* UpdateLastSummaryTime, or since construction if there was none.
C32_IntervalSincePreviousSnapshot ==
    [][ last'.op = "GetSummary" =>
          last'.summary.IntervalSeconds =
             now' - Later(history.anchoredAt,
                          IF held = NoSummary THEN 0 ELSE held.Timestamp) ]_vars

\* C33: in reset mode no recorded event is lost.  Between two ticks of the
\* printer (so that an event is not counted while its summary line is out
\* and Reset has yet to clear it) the events recorded so far are those the
\* printed summaries have reported plus those the tracker holds.
C33_NoEventLostOnReset ==
    (subject.reset /\ printer.pc \in {"select", "returned"}) =>
        TotalEvents(twin.stats) = twin.printed + TotalEvents(stats)

\* the flag of the filter that stands for an event kind
FlagOf(eventType) ==
    CASE eventType = "generation-change" -> "GenerationChange"
      [] eventType = "status-change" -> "StatusChange"
      [] eventType = "annotation-change" -> "AnnotationChange"
      [] eventType = "label-change" -> "LabelChange"
      [] eventType = "resourceversion-change" -> "ResourceVersionChange"
      [] eventType = "deletion" -> "Deletion"
      [] eventType = "not-found" -> "NotFound"
      [] eventType = "create" -> "Create"

\* C34: on a filter with at least one of its nine flags set, ShouldLog of one
\* of the eight known kinds is the flag of that kind, ShouldLog of any other
\* value is true, and ShouldLogTrigger is the TriggeredBy flag.
C34_FlagDecidesWhenAnyFlagSet ==
    ~NoFlagSet(subject) =>
        /\ (applied.fn = "ShouldLog" /\ applied.args[1] \in EventTypes) =>
              applied.result = subject[FlagOf(applied.args[1])]
        /\ (applied.fn = "ShouldLog" /\ applied.args[1] \notin EventTypes) =>
              applied.result = TRUE
        /\ applied.fn = "ShouldLogTrigger" => applied.result = subject.TriggeredBy

\* with TriggeredBy the only flag set, ShouldLog of create events is false
C34_Witness ==
    /\ subject = [NoFilters EXCEPT !.TriggeredBy = TRUE]
    /\ applied.fn = "ShouldLog"
    /\ applied.args = <<EventTypeCreate>>
    /\ applied.result = FALSE

\* an empty pattern is a wildcard, any other matches as a regular expression
PatternAccepts(pattern, value) == pattern = "" \/ MatchString(pattern, value)

\* a filter with a pattern to apply, each of its patterns empty or a regular expression
Filtering(f) ==
    IF f = NilFilter THEN FALSE
    ELSE /\ f.NamespacePattern /= "" \/ f.NamePattern /= ""
         /\ f.NamespacePattern = "" \/ ValidPattern(f.NamespacePattern)
         /\ f.NamePattern = "" \/ ValidPattern(f.NamePattern)

\* C35: on a filter with at least one non-empty pattern, as the command line
\* constructs it, Matches(namespace, name) is true exactly when the namespace
\* is accepted by NamespacePattern and the name by NamePattern, an empty
\* pattern accepting everything.
C35_EmptyPatternIsWildcard ==
    (applied.fn = "Matches" /\ Filtering(subject.filter)) =>
        applied.result = ( /\ PatternAccepts(subject.filter.NamespacePattern, applied.args[1])
                           /\ PatternAccepts(subject.filter.NamePattern, applied.args[2]) )


(***************************************************************************)
(* C36: objects that do not parse are passed over.                         *)
(***************************************************************************)
Unparseable(m) == SelectorError(m.BundleSelector) \/ SelectorError(m.NamespaceSelector)

\* the world without the bundles, mappings and cluster groups that do not parse
WithoutUnparseable(world) ==
    LET bundleParses(b) == ~MatcherNewError(b)
        mappingParses(m) == ~Unparseable(m)
        groupParses(g) == ~SelectorError(g.Selector)
    IN [world EXCEPT !.bundles = SelectSeq(@, bundleParses),
                     !.mappings = SelectSeq(@, mappingParses),
                     !.clusterGroups = SelectSeq(@, groupParses)]

HasUnparseable(world) == WithoutUnparseable(world) /= world

\* C36: a bundle whose matcher cannot be built is in neither list, and the
\* call returns the lists and the error it returns when the bundles,
\* mappings and cluster groups that do not parse are not there at all; when
\* no listing fails the error is nil.
C36_ParseErrorsNeverAbort ==
    applied.fn = "BundlesForCluster" =>
        LET expected == BundlesForCluster(WithoutUnparseable(subject.world), subject.cluster)
        IN /\ applied.result.bundlesToRefresh = expected.bundlesToRefresh
           /\ applied.result.bundlesToCleanup = expected.bundlesToCleanup
           /\ applied.result.err = expected.err
           /\ subject.world.fails = "none" => applied.result.err = NoError
           /\ \A b \in ElementsOf(subject.world.bundles) :
                MatcherNewError(b) => b \notin Refreshed \cup CleanedUp

\* a call that passes over a bundle, a mapping and a cluster group that do
\* not parse and still refreshes a bundle through the remaining mapping
C36_Witness ==
    /\ Successful
    /\ \E b \in Ignored : MatcherNewError(b)
    /\ \E m \in ElementsOf(subject.world.mappings) : Unparseable(m)
    /\ \E g \in ElementsOf(subject.world.clusterGroups) : SelectorError(g.Selector)
    /\ \E b \in Refreshed : b.Namespace /= subject.cluster.Namespace


(***************************************************************************)
(* C37: the cluster groups the matcher is given.                           *)
(***************************************************************************)
Contains(clusterGroups, g) ==
    IF g.Name \in DOMAIN clusterGroups THEN clusterGroups[g.Name] = g.Labels ELSE FALSE

\* C37: the map handed to the matcher holds a ClusterGroup, its name mapped to
\* its labels, exactly when the group is in the cluster's namespace, has a
\* selector that is not nil and parses, and the selector matches the
\* cluster's labels; the map holds no other name.
C37_GroupMapHoldsExactlyTheMembers ==
    (applied.fn = "clusterGroupsForCluster" /\ applied.result.err = NoError) =>
        /\ \A g \in ElementsOf(subject.world.clusterGroups) :
              Contains(applied.result.clusterGroups, g) <=>
                  /\ g.Namespace = subject.cluster.Namespace
                  /\ g.Selector /= NilSelector
                  /\ ~SelectorError(g.Selector)
                  /\ <<g.Selector.key, g.Selector.value>> \in subject.cluster.Labels
        /\ \A name \in DOMAIN applied.result.clusterGroups :
              \E g \in ElementsOf(subject.world.clusterGroups) : g.Name = name

\* the map holds one group and leaves out a listed group that does not parse
C37_Witness ==
    /\ applied.fn = "clusterGroupsForCluster"
    /\ applied.result.err = NoError
    /\ DOMAIN applied.result.clusterGroups = {"g1"}
    /\ \E g \in ElementsOf(subject.world.clusterGroups) : ~Contains(applied.result.clusterGroups, g)


(***************************************************************************)
(* C38: one membership per call.                                           *)
(***************************************************************************)
\* the map the matcher is given when the API server answers with the listing
GroupMapOf(listing) ==
    clusterGroupsToLabelMap(
        clusterGroupsForCluster([subject.world EXCEPT !.clusterGroups = listing], subject.cluster).items)

\* C38: when a call has returned without an error there is one listing of
\* cluster groups such that every returned bundle is in the refresh list
\* exactly when its matcher matches against the groups of that listing.
C38_OneMembershipPerCall ==
    Successful =>
        \E listing \in RacingGroupListings :
            \A b \in Refreshed \cup CleanedUp :
                b \in Refreshed <=>
                    Match(b, subject.cluster.Name, GroupMapOf(listing), subject.cluster.Labels)


(***************************************************************************)
(* C39: triggers and the requests they come with.                          *)
(***************************************************************************)
FanOutHandlers == {"BundleDeploymentToBundle", "ClusterToBundle", "mapBundleDeploymentToCluster"}

TriggerSum(s, key) ==
    s[key].TriggeredBy["BundleDeployment"] + s[key].TriggeredBy["Cluster"]

\* C39: what a watch fan-out handler records has a non-empty name and comes
\* with a request for that namespace and name; a handler that records
\* nothing enqueues nothing; every key of the tracker that counts a trigger
\* names a resource of the monitored type.
C39_TriggerPairsWithRequest ==
    /\ last.op \in FanOutHandlers =>
          /\ \A t \in last.recorded :
                /\ t[1].Name /= ""
                /\ [namespace |-> t[1].Namespace, name |-> t[1].Name] \in last.requests
          /\ last.recorded = {} => last.requests = {}
    /\ \A key \in DOMAIN stats :
          TriggerSum(stats, key) > 0 => (key.Name /= "" /\ key.ResourceType = cfg.kind)


(***************************************************************************)
(* C40: Collect recovers, and deletes before it collects.                  *)
(***************************************************************************)
\* C40: Collect hands no panic to its caller, whether Delete or the collector
\* function panicked; when metrics are not enabled it neither deletes nor
\* collects; when they are enabled Delete is the first thing it runs, and
\* once the collector function has run no series that the collectors held
\* for the object's name and namespace is left other than what the collector
\* function wrote, while the series of other objects are kept.
C40_CollectRecoversAndDeletesFirst ==
    applied.fn = "Collect" =>
        LET obj == applied.args[1]
            wasEnabled == applied.args[2]
            before == applied.args[3]
            out == applied.result
        IN /\ out.panic = NoPanic
           /\ ~wasEnabled => (out.trace = <<>> /\ out.metrics = before)
           /\ wasEnabled => (out.trace /= <<>> /\ out.trace[1] = "Delete")
           /\ (Len(out.trace) > 1) =>
                 \A m \in MetricNames :
                    /\ \A s \in Identified(out.metrics[m].series, obj.name, obj.namespace) :
                          s.state = obj.state /\ subject.collection.collector /= "panics"
                    /\ out.metrics[m].series \ Identified(out.metrics[m].series, obj.name, obj.namespace)
                          = before[m].series \ Identified(before[m].series, obj.name, obj.namespace)

\* the collector function panicked after Delete removed a series the
\* collectors held for the object, and Collect returned
C40_Witness ==
    /\ applied.fn = "Collect"
    /\ applied.args[2]
    /\ applied.result.trace = <<"Delete", "collector">>
    /\ applied.result.logged /= <<>>
    /\ \E m \in MetricNames :
          \E s \in Identified(applied.args[3][m].series, applied.args[1].name, applied.args[1].namespace) :
              s.state /= applied.args[1].state

====
